---- MODULE Spec2Model ----
(***************************************************************************)
(* A model of the Simple Management Protocol (SMP) codec: the 8-byte       *)
(* header (smp/header.py), the message envelope (smp/message.py) and the   *)
(* serial transport packetizer (smp/packet.py).                            *)
(*                                                                         *)
(* Bytes are integers 0..255 and byte strings are sequences of them.       *)
(***************************************************************************)
EXTENDS Integers, Sequences, FiniteSets, TLC

VARIABLES
    hdr_in,     \* header codec: the caller's input (field values, or raw bytes)
    hdr,        \* header codec: the outcome of the Header(...) call
    hdr_loaded, \* header codec: the outcome of the Header.loads(...) call
    request,    \* packetizer: the frame bytes handed to encode
    line_length,\* packetizer: encode's line_length argument
    enc,        \* packetizer: the encode generator (its position and locals)
    packets,    \* packetizer: the packets encode has yielded so far
    dec,        \* packetizer: the decode generator (its position and locals)
    corrupted,  \* transport: the byte of a packet that was replaced on the way
    msg_in,     \* envelope: the caller's input (keyword arguments, frame, header)
    msg,        \* envelope: the outcome of constructing a message
    msg_loaded, \* envelope: the outcome of the loads(...) or load(...) call
    counter,    \* envelope: the value the module's _counter returns next
    threads     \* envelope: the threads that construct messages, and what each drew

hdr_vars == <<hdr_in, hdr, hdr_loaded>>
pkt_vars == <<request, line_length, enc, packets, dec, corrupted>>
msg_vars == <<msg_in, msg, msg_loaded, counter>>
vars == <<hdr_vars, pkt_vars, msg_vars, threads>>

(***************************************************************************)
(* Integer helpers: Python's |, & and the struct module's range checks.    *)
(***************************************************************************)
RECURSIVE BitOr(_, _)
BitOr(a, b) ==
    IF a = 0 THEN b
    ELSE IF b = 0 THEN a
    ELSE (IF a % 2 = 1 \/ b % 2 = 1 THEN 1 ELSE 0) + 2 * BitOr(a \div 2, b \div 2)

RECURSIVE BitAnd(_, _)
BitAnd(a, b) ==
    IF a = 0 \/ b = 0 THEN 0
    ELSE (IF a % 2 = 1 /\ b % 2 = 1 THEN 1 ELSE 0) + 2 * BitAnd(a \div 2, b \div 2)

\* struct format "B" / "H": the value packs iff it is in range
FitsB(x) == x >= 0 /\ x <= 255
FitsH(x) == x >= 0 /\ x <= 65535

\* struct "!H": two bytes, big-endian
\* the two bytes in little-endian order
PackH_LittleEndian(x) == <<x % 256, x \div 256>>
PackH(x) == <<x \div 256, x % 256>>
UnpackH(b) == b[1] * 256 + b[2]

(***************************************************************************)
(* smp/header.py                                                           *)
(***************************************************************************)
OP == [READ |-> 0, READ_RSP |-> 1, WRITE |-> 2, WRITE_RSP |-> 3]
OPValues == {OP.READ, OP.READ_RSP, OP.WRITE, OP.WRITE_RSP}
OP_BIT == [MASK |-> 7, SHIFT |-> 0]

\* class Version: the members' wire values
VersionValues == {0, 1}
VERSION_BIT == [MASK |-> 3, SHIFT |-> 3]

GroupId == [OS_MANAGEMENT |-> 0, IMAGE_MANAGEMENT |-> 1, STATISTICS_MANAGEMENT |-> 2,
            SETTINGS_MANAGEMENT |-> 3, FILE_MANAGEMENT |-> 8, SHELL_MANAGEMENT |-> 9,
            ZEPHYR |-> 63, INTERCREATE |-> 64]

\* CommandId.OSManagement, CommandId.ImageManagement, CommandId.ShellManagement
CommandIdOSManagement == 0 .. 8
CommandIdImageManagement == 0 .. 5
CommandIdShellManagement == {0}

\* Header._MAP_GROUP_ID_TO_COMMAND_ID_ENUM: the groups with a registered enum
RegisteredGroups == {GroupId.OS_MANAGEMENT, GroupId.IMAGE_MANAGEMENT, GroupId.SHELL_MANAGEMENT}
MAP_GROUP_ID_TO_COMMAND_ID_ENUM(g) ==
    CASE g = GroupId.OS_MANAGEMENT -> CommandIdOSManagement
      [] g = GroupId.IMAGE_MANAGEMENT -> CommandIdImageManagement
      [] g = GroupId.SHELL_MANAGEMENT -> CommandIdShellManagement
      [] OTHER -> {}

Pow2(n) == CASE n = 0 -> 1 [] n = 3 -> 8 [] OTHER -> 1

pack_op(op) == op * Pow2(OP_BIT.SHIFT)
unpack_op(b) == BitAnd(b, OP_BIT.MASK) \div Pow2(OP_BIT.SHIFT)
pack_version(version) == version * Pow2(VERSION_BIT.SHIFT)
\* the version read without shifting the byte down
unpack_version_NoShift(b) == BitAnd(b, VERSION_BIT.MASK)
unpack_version(b) == BitAnd(b \div Pow2(VERSION_BIT.SHIFT), VERSION_BIT.MASK)

\* op | version << 3; a negative operand gives a negative result, which "B" refuses
pack_op_and_version(op, version) ==
    IF op < 0 \/ version < 0 THEN -1
    ELSE BitOr(pack_op(op), pack_version(version))

\* a registry that checks every registered group against the OS management enum
validate_command_id_OneEnum(group_id, command_id) ==
    group_id \in RegisteredGroups => command_id \in CommandIdOSManagement

\* TRUE iff _validate_command_id returns without raising ValueError
validate_command_id(group_id, command_id) ==
    group_id \in RegisteredGroups => command_id \in MAP_GROUP_ID_TO_COMMAND_ID_ENUM(group_id)

HeaderSIZE == 8

NoHeader == [op |-> -1, version |-> -1, flags |-> -1, length |-> -1,
             group_id |-> -1, sequence |-> -1, command_id |-> -1]
NoResult == [status |-> "none", err |-> "", h |-> NoHeader, bytes |-> << >>]
HeaderIdle == [kind |-> "idle", h |-> NoHeader, raw |-> << >>]
Raise(kind) == [status |-> "error", err |-> kind, h |-> NoHeader, bytes |-> << >>]

MkHeader(op, version, flags, length, group_id, sequence, command_id) ==
    [op |-> op, version |-> version, flags |-> flags, length |-> length,
     group_id |-> group_id, sequence |-> sequence, command_id |-> command_id]

\* self._STRUCT.pack(...) with "!BBHHBB": the 8 bytes, when every value fits
STRUCT_fits(h) ==
    /\ FitsB(pack_op_and_version(h.op, h.version))
    /\ FitsB(h.flags)
    /\ FitsH(h.length)
    /\ FitsH(h.group_id)
    /\ FitsB(h.sequence)
    /\ FitsB(h.command_id)

STRUCT_pack(h) ==
    <<pack_op_and_version(h.op, h.version), h.flags>> \o PackH(h.length)
        \o PackH(h.group_id) \o <<h.sequence, h.command_id>>

\* Header(...): the dataclass constructor followed by __post_init__
Header(h) ==
    IF ~validate_command_id(h.group_id, h.command_id) THEN Raise("ValueError")
    ELSE IF ~STRUCT_fits(h) THEN Raise("struct.error")
    ELSE [status |-> "ok", err |-> "", h |-> h, bytes |-> STRUCT_pack(h)]

\* a loads that only refuses short input and ignores bytes after the eighth
Header_loads_AcceptsLong(b, optimized) ==
    IF Len(b) < HeaderSIZE
    THEN (IF optimized THEN Raise("struct.error") ELSE Raise("AssertionError"))
    ELSE LET op == unpack_op(b[1])
             version == unpack_version(b[1])
         IN IF ~validate_command_id(UnpackH(SubSeq(b, 5, 6)), b[8]) THEN Raise("ValueError")
            ELSE IF op \notin OPValues \/ version \notin VersionValues THEN Raise("ValueError")
            ELSE Header(MkHeader(op, version, b[2], UnpackH(SubSeq(b, 3, 4)),
                                 UnpackH(SubSeq(b, 5, 6)), b[7], b[8]))

\* Header.loads(header); optimized: the interpreter runs with assertions stripped
Header_loads(b, optimized) ==
    IF Len(b) # HeaderSIZE
    THEN (IF optimized THEN Raise("struct.error") ELSE Raise("AssertionError"))
    ELSE LET res_ver_op_byte == b[1]
             flags == b[2]
             length == UnpackH(SubSeq(b, 3, 4))
             group_id == UnpackH(SubSeq(b, 5, 6))
             sequence == b[7]
             command_id == b[8]
         IN IF ~validate_command_id(group_id, command_id) THEN Raise("ValueError")
            ELSE IF unpack_op(res_ver_op_byte) \notin OPValues THEN Raise("ValueError")
            ELSE IF unpack_version(res_ver_op_byte) \notin VersionValues THEN Raise("ValueError")
            ELSE Header(MkHeader(unpack_op(res_ver_op_byte), unpack_version(res_ver_op_byte),
                                 flags, length, group_id, sequence, command_id))

(***************************************************************************)
(* Python sequence slicing and the library functions smp/packet.py calls.  *)
(***************************************************************************)
\* s[lo:hi] with Python's treatment of negative and out-of-range indices
PySlice(s, lo, hi) ==
    LET Clamp(n) == IF n < 0 THEN (IF Len(s) + n > 0 THEN Len(s) + n ELSE 0)
                    ELSE (IF n < Len(s) THEN n ELSE Len(s))
        a == Clamp(lo)
        b == Clamp(hi)
    IN IF a >= b THEN << >> ELSE SubSeq(s, a + 1, b)
PySliceTo(s, hi) == PySlice(s, 0, hi)
PySliceFrom(s, lo) == PySlice(s, lo, Len(s))

RECURSIVE BitXor(_, _)
BitXor(a, b) ==
    IF a = 0 THEN b
    ELSE IF b = 0 THEN a
    ELSE (IF a % 2 # b % 2 THEN 1 ELSE 0) + 2 * BitXor(a \div 2, b \div 2)

\* CRC-16/XMODEM: polynomial 0x1021, initial value 0, no reflection
CRC_POLY == 4129
CrcShift(crc) ==
    IF crc >= 32768 THEN BitXor((crc * 2) % 65536, CRC_POLY) ELSE crc * 2
CrcByte(crc, byte) ==
    CrcShift(CrcShift(CrcShift(CrcShift(CrcShift(CrcShift(CrcShift(CrcShift(
        BitXor(crc, byte * 256)))))))))
\* the register is 16 bits wide after every byte
RECURSIVE CrcFrom(_, _, _)
CrcFrom(crc, s, i) ==
    IF i > Len(s) THEN crc
    ELSE LET next == CrcByte(crc, s[i])
         IN IF next \in 0 .. 65535 THEN CrcFrom(next, s, i + 1) ELSE -1
crc16_func(s) == CrcFrom(0, s, 1)

\* the base64 alphabet, as ASCII codes; '=' pads
BASE64_PAD == 61
B64Char(v) ==
    IF v < 26 THEN 65 + v
    ELSE IF v < 52 THEN 97 + (v - 26)
    ELSE IF v < 62 THEN 48 + (v - 52)
    ELSE IF v = 62 THEN 43 ELSE 47
\* the 6-bit value of a character, or 64 for a character outside the alphabet
B64Value(ch) ==
    IF ch >= 65 /\ ch <= 90 THEN ch - 65
    ELSE IF ch >= 97 /\ ch <= 122 THEN ch - 97 + 26
    ELSE IF ch >= 48 /\ ch <= 57 THEN ch - 48 + 52
    ELSE IF ch = 43 THEN 62
    ELSE IF ch = 47 THEN 63 ELSE 64

\* base64.b64encode: every 3 bytes give 4 characters; a short last group is padded
B64EncodedChar(s, k) ==
    LET Byte(i) == IF i <= Len(s) THEN s[i] ELSE 0
        q == (k - 1) \div 4
        r == (k - 1) % 4
        b1 == Byte(3 * q + 1)
        b2 == Byte(3 * q + 2)
        b3 == Byte(3 * q + 3)
    IN CASE r = 0 -> B64Char(b1 \div 4)
         [] r = 1 -> B64Char((b1 % 4) * 16 + b2 \div 16)
         [] r = 2 -> IF 3 * q + 2 > Len(s) THEN BASE64_PAD
                     ELSE B64Char((b2 % 16) * 4 + b3 \div 64)
         [] OTHER -> IF 3 * q + 3 > Len(s) THEN BASE64_PAD ELSE B64Char(b3 % 64)
b64encode(s) ==
    IF Len(s) = 0 THEN << >>
    ELSE [k \in 1 .. 4 * ((Len(s) + 2) \div 3) |-> B64EncodedChar(s, k)]

\* binascii.a2b_base64 in its default (non-strict) mode, as base64.b64decode calls
\* it: characters outside the alphabet are skipped; a pad that completes a quad of
\* 2 or 3 data characters ends the input; otherwise data characters left over
\* from an unfinished quad raise binascii.Error.
B64IsData(ch) == B64Value(ch) < 64
\* the pad at i ends the input: quad_pos is the count of data characters read
\* so far, pads the count of pads since the last of them
B64Stops(s, i) ==
    LET quad_pos == Cardinality({j \in 1 .. i - 1 : B64IsData(s[j])}) % 4
        pads == Cardinality({j \in 1 .. i : s[j] = BASE64_PAD
                                               /\ \A k \in j .. i : ~B64IsData(s[k])})
    IN /\ s[i] = BASE64_PAD
       /\ quad_pos >= 2
       /\ quad_pos + pads >= 4
b64decode(s) ==
    LET stops == {i \in 1 .. Len(s) : B64Stops(s, i)}
        stop == IF stops = {} THEN Len(s) + 1
                ELSE CHOOSE i \in stops : \A j \in stops : i <= j
        data == SelectSeq(SubSeq(s, 1, stop - 1), B64IsData)
        m == Len(data)
        nbytes == 3 * (m \div 4) + (IF m % 4 >= 2 THEN (m % 4) - 1 ELSE 0)
        v(k) == B64Value(data[k])
        byte(k) ==
            LET q == 4 * ((k - 1) \div 3)
                r == (k - 1) % 3
            IN CASE r = 0 -> v(q + 1) * 4 + v(q + 2) \div 16
                 [] r = 1 -> (v(q + 2) % 16) * 16 + v(q + 3) \div 4
                 [] OTHER -> (v(q + 3) % 4) * 64 + v(q + 4)
    IN IF stops = {} /\ m % 4 # 0 THEN [ok |-> FALSE, data |-> << >>]
       ELSE IF nbytes = 0 THEN [ok |-> TRUE, data |-> << >>]
       ELSE [ok |-> TRUE, data |-> [k \in 1 .. nbytes |-> byte(k)]]

(***************************************************************************)
(* smp/packet.py                                                           *)
(***************************************************************************)
SIXTY_NINE == <<6, 9>>
START_DELIMITER == SIXTY_NINE
FOUR_TWENTY == <<4, 20>>
\* a continuation that is marked like the start of a frame
CONTINUE_DELIMITER_SixtyNine == SIXTY_NINE
CONTINUE_DELIMITER == FOUR_TWENTY
DELIMITER_SIZE == 2
LF == <<10>>
END_DELIMITER == LF
LINE_LENGTH_SUBTRACTOR == 4
FRAME_LENGTH_STRUCT_size == 2
CRC16_STRUCT_size == 2

\* encode's locals before its first yield
\* a packet size that is not rounded down to a multiple of 4
packet_size_Unaligned(ll) == ll - LINE_LENGTH_SUBTRACTOR
packet_size(ll) == ((ll - LINE_LENGTH_SUBTRACTOR) \div 4) * 4
\* an envelope whose length field counts the request without its CRC
complete_b64_LengthOfRequest(req) ==
    b64encode(PackH(Len(req)) \o req \o PackH(crc16_func(req)))
complete_b64(req) ==
    b64encode(PackH(Len(req) + CRC16_STRUCT_size) \o req \o PackH(crc16_func(req)))

EncIdle == [pc |-> "idle", remaining |-> << >>]
DecIdle == [pc |-> "idle", frame_length |-> 0, frame |-> << >>, fed |-> 0,
            result |-> << >>, err |-> ""]
DecRaise(d, kind) == [d EXCEPT !.pc = "failed", !.err = kind, !.fed = d.fed + 1]

\* decode's lines 180-187: the CRC check once the loop has ended
DecFinish(d, frame) ==
    LET complete_frame == PySliceTo(frame, -CRC16_STRUCT_size)
        crc_bytes == PySliceFrom(frame, -CRC16_STRUCT_size)
    IN IF Len(crc_bytes) # CRC16_STRUCT_size THEN DecRaise(d, "struct.error")
       ELSE IF UnpackH(crc_bytes) # crc16_func(complete_frame) THEN DecRaise(d, "SMPBadCRC")
       ELSE [d EXCEPT !.pc = "done", !.frame = frame, !.result = complete_frame,
                      !.fed = d.fed + 1]

\* a loop test that still asks for a packet when the frame has reached its length
DecLoop_WaitsAtLength(d, frame_length, frame) ==
    IF Len(frame) <= frame_length
    THEN [d EXCEPT !.pc = "more", !.frame_length = frame_length, !.frame = frame,
                   !.fed = d.fed + 1]
    ELSE DecFinish([d EXCEPT !.frame_length = frame_length], frame)

\* the while loop's test: suspend for another packet, or finish
DecLoop(d, frame_length, frame) ==
    IF Len(frame) < frame_length
    THEN [d EXCEPT !.pc = "more", !.frame_length = frame_length, !.frame = frame,
                   !.fed = d.fed + 1]
    ELSE DecFinish([d EXCEPT !.frame_length = frame_length], frame)

\* decoder.send(packet): the generator runs until its next yield, return or raise
DecSend(d, packet) ==
    LET body == b64decode(PySlice(packet, DELIMITER_SIZE, -Len(END_DELIMITER)))
    IN IF d.pc = "first"
       THEN IF PySliceTo(packet, DELIMITER_SIZE) # START_DELIMITER
            THEN DecRaise(d, "SMPBadStartDelimiter")
            ELSE IF ~body.ok THEN DecRaise(d, "binascii.Error")
            ELSE IF Len(body.data) < FRAME_LENGTH_STRUCT_size THEN DecRaise(d, "struct.error")
            ELSE DecLoop(d, UnpackH(PySliceTo(body.data, FRAME_LENGTH_STRUCT_size)),
                         PySliceFrom(body.data, FRAME_LENGTH_STRUCT_size))
       ELSE IF PySliceTo(packet, DELIMITER_SIZE) # CONTINUE_DELIMITER
            THEN DecRaise(d, "SMPBadContinueDelimiter")
            ELSE IF ~body.ok THEN DecRaise(d, "binascii.Error")
            ELSE DecLoop(d, d.frame_length, d.frame \o body.data)

(***************************************************************************)
(* Payload values.  A Python value is a record of its kind and its content *)
(* as a sequence: an int or bool is one number, a str is its UTF-8 bytes,  *)
(* a list is its items, a dict or a model is its (name, value) pairs in    *)
(* insertion order.                                                        *)
(***************************************************************************)
VNone == [k |-> "none", v |-> << >>]
VInt(n) == [k |-> "int", v |-> <<n>>]
VBool(b) == [k |-> "bool", v |-> <<IF b THEN 1 ELSE 0>>]
VStr(b) == [k |-> "str", v |-> b]
VBytes(b) == [k |-> "bytes", v |-> b]
VList(items) == [k |-> "list", v |-> items]
VMap(pairs) == [k |-> "map", v |-> pairs]

\* the UTF-8 bytes of the field names of the message types modelled
NameBytes ==
    [d |-> <<100>>,
     force |-> <<102, 111, 114, 99, 101>>,
     off |-> <<111, 102, 102>>,
     match |-> <<109, 97, 116, 99, 104>>,
     rc |-> <<114, 99>>,
     images |-> <<105, 109, 97, 103, 101, 115>>,
     splitStatus |-> <<115, 112, 108, 105, 116, 83, 116, 97, 116, 117, 115>>,
     slot |-> <<115, 108, 111, 116>>,
     version |-> <<118, 101, 114, 115, 105, 111, 110>>,
     image |-> <<105, 109, 97, 103, 101>>,
     hash |-> <<104, 97, 115, 104>>,
     bootable |-> <<98, 111, 111, 116, 97, 98, 108, 101>>,
     pending |-> <<112, 101, 110, 100, 105, 110, 103>>,
     confirmed |-> <<99, 111, 110, 102, 105, 114, 109, 101, 100>>,
     active |-> <<97, 99, 116, 105, 118, 101>>,
     permanent |-> <<112, 101, 114, 109, 97, 110, 101, 110, 116>>,
     sequence |-> <<115, 101, 113, 117, 101, 110, 99, 101>>,
     header |-> <<104, 101, 97, 100, 101, 114>>,
     smp_data |-> <<115, 109, 112, 95, 100, 97, 116, 97>>,
     rsn |-> <<114, 115, 110>>,
     err |-> <<101, 114, 114>>,
     group |-> <<103, 114, 111, 117, 112>>]
Names == DOMAIN NameBytes
NONSTR_KEY == "<not a str>"
UNKNOWN_KEY == "<other str>"
NameOf(b) == IF \E n \in Names : NameBytes[n] = b
             THEN CHOOSE n \in Names : NameBytes[n] = b
             ELSE UNKNOWN_KEY
KeyBytes(name) == IF name \in Names THEN NameBytes[name] ELSE <<63>>

\* dict operations on (name, value) pairs
Has(pairs, name) == \E i \in 1 .. Len(pairs) : pairs[i][1] = name
Lookup(pairs, name) ==
    IF Has(pairs, name)
    THEN pairs[CHOOSE i \in 1 .. Len(pairs) : pairs[i][1] = name][2]
    ELSE VNone
\* d[name] = value: a key that is present keeps its position
DictSet(pairs, name, value) ==
    IF Has(pairs, name)
    THEN [i \in 1 .. Len(pairs) |->
             IF pairs[i][1] = name THEN <<name, value>> ELSE pairs[i]]
    ELSE Append(pairs, <<name, value>>)

RECURSIVE Concat(_)
Concat(ss) == IF Len(ss) = 0 THEN << >> ELSE Head(ss) \o Concat(Tail(ss))

(***************************************************************************)
(* cbor2.dumps(..., canonical=True) and cbor2.loads, for the value kinds   *)
(* above (RFC 8949 major types 0-5 and the simple values false, true and   *)
(* null, with arguments of up to four bytes).                              *)
(***************************************************************************)
\* an off-by-one at the boundary of the one-byte head
CborHead_ShortAt24(major, n) ==
    IF n <= 24 THEN <<major * 32 + n>>
    ELSE IF n < 256 THEN <<major * 32 + 24, n>>
    ELSE IF n < 65536 THEN <<major * 32 + 25, n \div 256, n % 256>>
    ELSE <<major * 32 + 26, n \div 16777216, (n \div 65536) % 256,
           (n \div 256) % 256, n % 256>>

\* the initial byte and the argument of a data item
CborHead(major, n) ==
    IF n < 24 THEN <<major * 32 + n>>
    ELSE IF n < 256 THEN <<major * 32 + 24, n>>
    ELSE IF n < 65536 THEN <<major * 32 + 25, n \div 256, n % 256>>
    ELSE <<major * 32 + 26, n \div 16777216, (n \div 65536) % 256,
           (n \div 256) % 256, n % 256>>

\* bytewise lexicographic order
BytesLess(a, b) ==
    \E i \in 1 .. Len(b) :
        /\ \A j \in 1 .. i - 1 : j <= Len(a) /\ a[j] = b[j]
        /\ (i > Len(a) \/ a[i] < b[i])
\* canonical map keys sort by the length of their encoding, then bytewise
CanonicalKeyLess(p, q) ==
    Len(p[1]) < Len(q[1]) \/ (Len(p[1]) = Len(q[1]) /\ BytesLess(p[1], q[1]))

RECURSIVE cbor2_dumps(_)
cbor2_dumps(x) ==
    CASE x.k = "none" -> <<246>>
      [] x.k = "bool" -> <<244 + x.v[1]>>
      [] x.k = "int" -> IF x.v[1] >= 0 THEN CborHead(0, x.v[1])
                        ELSE CborHead(1, -1 - x.v[1])
      [] x.k = "bytes" -> CborHead(2, Len(x.v)) \o x.v
      [] x.k = "str" -> CborHead(3, Len(x.v)) \o x.v
      [] x.k = "list" ->
            CborHead(4, Len(x.v))
                \o Concat([i \in 1 .. Len(x.v) |-> cbor2_dumps(x.v[i])])
      [] x.k = "map" ->
            LET encoded == [i \in 1 .. Len(x.v) |->
                              <<cbor2_dumps(VStr(KeyBytes(x.v[i][1]))),
                                cbor2_dumps(x.v[i][2])>>]
                sorted == SortSeq(encoded, CanonicalKeyLess)
            IN CborHead(5, Len(x.v))
                   \o Concat([i \in 1 .. Len(x.v) |-> sorted[i][1] \o sorted[i][2]])

CborFail == [ok |-> FALSE, val |-> VNone, next |-> 0]
\* the argument that follows the initial byte at i
CborArgument(s, i) ==
    LET info == s[i] % 32
    IN IF info < 24 THEN [ok |-> TRUE, n |-> info, next |-> i + 1]
       ELSE IF info = 24 /\ i + 1 <= Len(s)
            THEN [ok |-> TRUE, n |-> s[i + 1], next |-> i + 2]
       ELSE IF info = 25 /\ i + 2 <= Len(s)
            THEN [ok |-> TRUE, n |-> s[i + 1] * 256 + s[i + 2], next |-> i + 3]
       ELSE IF info = 26 /\ i + 4 <= Len(s)
            THEN [ok |-> TRUE,
                  n |-> s[i + 1] * 16777216 + s[i + 2] * 65536 + s[i + 3] * 256 + s[i + 4],
                  next |-> i + 5]
       ELSE [ok |-> FALSE, n |-> 0, next |-> 0]

\* the dict of a decoded map: a repeated key keeps its first position and
\* takes the last value
RECURSIVE PairUp(_, _, _)
PairUp(items, i, acc) ==
    IF i > Len(items) THEN acc
    ELSE LET key == items[i]
             name == IF key.k = "str" THEN NameOf(key.v) ELSE NONSTR_KEY
         IN PairUp(items, i + 2, DictSet(acc, name, items[i + 1]))

RECURSIVE cbor_item(_, _)
RECURSIVE cbor_items(_, _, _, _)
RECURSIVE cbor_until_break(_, _, _)
\* decode the data item that starts at s[i]; 9f and bf open an array and a map
\* of indefinite length that the break byte ff closes
cbor_item(s, i) ==
    IF i > Len(s) THEN CborFail
    ELSE LET major == s[i] \div 32
             arg == CborArgument(s, i)
             open == cbor_until_break(s, i + 1, << >>)
         IN IF s[i] = 159 THEN open
            ELSE IF s[i] = 191
            THEN (IF ~open.ok \/ Len(open.val.v) % 2 # 0 THEN CborFail
                  ELSE [ok |-> TRUE, val |-> VMap(PairUp(open.val.v, 1, << >>)),
                        next |-> open.next])
            ELSE IF major = 7
            THEN (IF s[i] \in {244, 245}
                  THEN [ok |-> TRUE, val |-> VBool(s[i] = 245), next |-> i + 1]
                  ELSE IF s[i] = 246 THEN [ok |-> TRUE, val |-> VNone, next |-> i + 1]
                  ELSE CborFail)
            ELSE IF ~arg.ok \/ major = 6 THEN CborFail
            ELSE IF major = 0 THEN [ok |-> TRUE, val |-> VInt(arg.n), next |-> arg.next]
            ELSE IF major = 1 THEN [ok |-> TRUE, val |-> VInt(-1 - arg.n), next |-> arg.next]
            ELSE IF major \in {2, 3}
            THEN (IF arg.next + arg.n - 1 > Len(s) THEN CborFail
                  ELSE LET content == SubSeq(s, arg.next, arg.next + arg.n - 1)
                       IN [ok |-> TRUE,
                           val |-> IF major = 2 THEN VBytes(content) ELSE VStr(content),
                           next |-> arg.next + arg.n])
            ELSE IF major = 4 THEN cbor_items(s, arg.next, arg.n, << >>)
            ELSE LET r == cbor_items(s, arg.next, 2 * arg.n, << >>)
                 IN IF ~r.ok THEN CborFail
                    ELSE [ok |-> TRUE, val |-> VMap(PairUp(r.val.v, 1, << >>)),
                          next |-> r.next]

\* decode n consecutive data items starting at s[i]
cbor_items(s, i, n, acc) ==
    IF n = 0 THEN [ok |-> TRUE, val |-> VList(acc), next |-> i]
    ELSE LET r == cbor_item(s, i)
         IN IF ~r.ok THEN CborFail
            ELSE cbor_items(s, r.next, n - 1, Append(acc, r.val))

\* decode consecutive data items starting at s[i] up to the break byte
cbor_until_break(s, i, acc) ==
    IF i > Len(s) THEN CborFail
    ELSE IF s[i] = 255 THEN [ok |-> TRUE, val |-> VList(acc), next |-> i + 1]
    ELSE LET r == cbor_item(s, i)
         IN IF ~r.ok THEN CborFail
            ELSE cbor_until_break(s, r.next, Append(acc, r.val))

\* cbor2.loads(s): the first data item; bytes after it are not read
cbor2_loads(s) ==
    LET r == cbor_item(s, 1)
    IN [ok |-> r.ok, val |-> r.val]

(***************************************************************************)
(* pydantic: the declared fields of the message types, validation of the   *)
(* keyword arguments against them (model_config extra="forbid") and        *)
(* model_dump.  A validated model is the pairs of the fields that were     *)
(* set, in declaration order; a field that was not set holds None.         *)
(* Inputs give each field a value of its declared type, None, or a value   *)
(* that no conversion of pydantic's accepts (text for a number, a number   *)
(* for text).                                                              *)
(***************************************************************************)
Field(name, kind, required) == [name |-> name, kind |-> kind, required |-> required]

\* image_management.ImageState
ImageState ==
    <<Field("slot", "int", TRUE), Field("version", "str", TRUE),
      Field("image", "int", FALSE), Field("hash", "bytes", FALSE),
      Field("bootable", "bool", FALSE), Field("pending", "bool", FALSE),
      Field("confirmed", "bool", FALSE), Field("active", "bool", FALSE),
      Field("permanent", "bool", FALSE)>>

\* the message types: their ClassVars _OP, _GROUP_ID, _COMMAND_ID and fields
EchoWriteRequest ==
    [OP |-> OP.WRITE, GROUP_ID |-> GroupId.OS_MANAGEMENT, COMMAND_ID |-> 0,
     fields |-> <<Field("d", "str", TRUE)>>]
ResetWriteRequest ==
    [OP |-> OP.WRITE, GROUP_ID |-> GroupId.OS_MANAGEMENT, COMMAND_ID |-> 5,
     fields |-> <<Field("force", "literal01", FALSE)>>]
ImageStatesReadResponse ==
    [OP |-> OP.READ_RSP, GROUP_ID |-> GroupId.IMAGE_MANAGEMENT, COMMAND_ID |-> 0,
     fields |-> <<Field("images", "ImageStates", TRUE), Field("splitStatus", "int", FALSE)>>]
ImageUploadWriteResponse ==
    [OP |-> OP.WRITE_RSP, GROUP_ID |-> GroupId.IMAGE_MANAGEMENT, COMMAND_ID |-> 1,
     fields |-> <<Field("off", "int", FALSE), Field("match", "bool", FALSE),
                  Field("rc", "int", FALSE)>>]
\* error.MGMT_ERR, and the members of header.GroupId and of test_error.FAKE_ERR
MGMT_ERR == (0 .. 13) \cup {256}
GroupIdMembers == (0 .. 9) \cup {63}
FAKE_ERR == {0, 1}
\* error.Err[FAKE_ERR]
Err == <<Field("group", "GroupId", TRUE), Field("rc", "FAKE_ERR", TRUE)>>
\* test_error.FakeErrorV1 and FakeErrorV2: ErrorV1 and ErrorV2[FAKE_ERR] with a
\* _GROUP_ID; they declare no _OP and no _COMMAND_ID
FakeErrorV1 ==
    [GROUP_ID |-> GroupId.IMAGE_MANAGEMENT,
     fields |-> <<Field("rc", "MGMT_ERR", TRUE), Field("rsn", "str", FALSE)>>]
FakeErrorV2 ==
    [GROUP_ID |-> GroupId.IMAGE_MANAGEMENT, fields |-> <<Field("err", "Err", TRUE)>>]
\* image_management.ImageManagementErrorV1 and ImageManagementErrorV2: ErrorV1
\* and ErrorV2[IMG_MGMT_ERR], whose members are 0 .. 14
ErrImage == <<Field("group", "GroupId", TRUE), Field("rc", "IMG_MGMT_ERR", TRUE)>>
ImageManagementErrorV1 ==
    [GROUP_ID |-> GroupId.IMAGE_MANAGEMENT,
     fields |-> <<Field("rc", "MGMT_ERR", TRUE), Field("rsn", "str", FALSE)>>]
ImageManagementErrorV2 ==
    [GROUP_ID |-> GroupId.IMAGE_MANAGEMENT, fields |-> <<Field("err", "ErrImage", TRUE)>>]
\* a user-defined ReadRequest in the first user group, as test_message.py declares
CustomReadRequest ==
    [OP |-> OP.READ, GROUP_ID |-> 64, COMMAND_ID |-> 1, fields |-> << >>]
\* class A(ReadRequest) of test_invalid_group_id: its _GROUP_ID is 0x10000
InvalidGroupRequest ==
    [OP |-> OP.READ, GROUP_ID |-> 65536, COMMAND_ID |-> 0, fields |-> << >>]
MessageClass ==
    [EchoWriteRequest |-> EchoWriteRequest, ResetWriteRequest |-> ResetWriteRequest,
     ImageStatesReadResponse |-> ImageStatesReadResponse,
     ImageUploadWriteResponse |-> ImageUploadWriteResponse,
     CustomReadRequest |-> CustomReadRequest,
     InvalidGroupRequest |-> InvalidGroupRequest,
     FakeErrorV1 |-> FakeErrorV1, FakeErrorV2 |-> FakeErrorV2,
     ImageManagementErrorV1 |-> ImageManagementErrorV1,
     ImageManagementErrorV2 |-> ImageManagementErrorV2]
ErrorTypes == {"FakeErrorV1", "FakeErrorV2", "ImageManagementErrorV1",
               "ImageManagementErrorV2"}
\* the types that can be constructed: they declare _OP and _COMMAND_ID
MessageTypes == DOMAIN MessageClass \ ErrorTypes

\* _MessageBase's own fields that a keyword argument or a map key can name
BaseFields == {"header", "version", "sequence", "smp_data"}

FieldNames(fields) == {fields[i].name : i \in 1 .. Len(fields)}
FieldNamed(fields, name) == fields[CHOOSE i \in 1 .. Len(fields) : fields[i].name = name]

\* a value of a scalar field type; an Optional field also takes None
ValidScalar(field, val) ==
    CASE val.k = "none" -> ~field.required
      [] field.kind = "int" -> val.k = "int"
      [] field.kind = "bool" -> val.k = "bool"
      [] field.kind = "str" -> val.k = "str"
      [] field.kind = "bytes" -> val.k = "bytes"
      [] field.kind = "literal01" -> val.k = "int" /\ val.v[1] \in {0, 1}
      [] field.kind = "MGMT_ERR" -> val.k = "int" /\ val.v[1] \in MGMT_ERR
      [] field.kind = "GroupId" -> val.k = "int" /\ val.v[1] \in GroupIdMembers
      [] field.kind = "FAKE_ERR" -> val.k = "int" /\ val.v[1] \in FAKE_ERR
      [] field.kind = "IMG_MGMT_ERR" -> val.k = "int" /\ val.v[1] \in 0 .. 14
      [] OTHER -> FALSE

\* the keyword arguments name only declared fields, every required field
\* is among them, and every value is of its field's type
ValidPairs(fields, pairs) ==
    /\ \A i \in 1 .. Len(pairs) : pairs[i][1] \in FieldNames(fields)
    /\ \A i \in 1 .. Len(fields) : fields[i].required => Has(pairs, fields[i].name)
    /\ \A i \in 1 .. Len(pairs) :
          ValidScalar(FieldNamed(fields, pairs[i][1]), pairs[i][2])

\* the fields that were set, in declaration order
SetFields(fields, pairs) ==
    LET IsSet(f) == Has(pairs, f.name)
        set == SelectSeq(fields, IsSet)
    IN [i \in 1 .. Len(set) |-> <<set[i].name, Lookup(pairs, set[i].name)>>]

\* List[ImageState]: a list whose items are ImageState models or dicts for one
ValidImageStates(val) ==
    /\ val.k = "list"
    /\ \A i \in 1 .. Len(val.v) :
          val.v[i].k = "map" /\ ValidPairs(ImageState, val.v[i].v)
ValidatedImageStates(val) ==
    VList([i \in 1 .. Len(val.v) |-> VMap(SetFields(ImageState, val.v[i].v))])

\* a value of a field's type: a scalar, a list of ImageState or an Err
ValidField(field, val) ==
    CASE field.kind = "ImageStates" -> ValidImageStates(val)
      [] field.kind = "Err" -> val.k = "map" /\ ValidPairs(Err, val.v)
      [] field.kind = "ErrImage" -> val.k = "map" /\ ValidPairs(ErrImage, val.v)
      [] OTHER -> ValidScalar(field, val)
\* the value as the validated model holds it
ValidatedField(field, val) ==
    CASE field.kind = "ImageStates" -> ValidatedImageStates(val)
      [] field.kind = "Err" -> VMap(SetFields(Err, val.v))
      [] field.kind = "ErrImage" -> VMap(SetFields(ErrImage, val.v))
      [] OTHER -> val

\* a validation with extra="ignore": undeclared keys are dropped, not rejected
ValidateModel_IgnoresExtra(fields, pairs) ==
    LET Declared(pair) == pair[1] \in FieldNames(fields)
        known == SelectSeq(pairs, Declared)
        set == SetFields(fields, known)
    IN IF /\ \A i \in 1 .. Len(fields) : fields[i].required => Has(known, fields[i].name)
          /\ \A i \in 1 .. Len(known) :
                ValidField(FieldNamed(fields, known[i][1]), known[i][2])
       THEN [ok |-> TRUE,
             fields |-> [i \in 1 .. Len(set) |->
                            <<set[i][1],
                              ValidatedField(FieldNamed(fields, set[i][1]), set[i][2])>>]]
       ELSE [ok |-> FALSE, fields |-> << >>]
\* cls.model_validate of the payload keyword arguments: [ok, fields]
ValidateModel(fields, pairs) ==
    IF /\ \A i \in 1 .. Len(pairs) : pairs[i][1] \in FieldNames(fields)
       /\ \A i \in 1 .. Len(fields) : fields[i].required => Has(pairs, fields[i].name)
       /\ \A i \in 1 .. Len(pairs) :
             ValidField(FieldNamed(fields, pairs[i][1]), pairs[i][2])
    THEN LET set == SetFields(fields, pairs)
         IN [ok |-> TRUE,
             fields |-> [i \in 1 .. Len(set) |->
                            <<set[i][1],
                              ValidatedField(FieldNamed(fields, set[i][1]), set[i][2])>>]]
    ELSE [ok |-> FALSE, fields |-> << >>]

NotNone(pair) == pair[2].k # "none"
\* a dump that leaves out unset fields but keeps those set to None
model_dump_KeepsNone(set_fields) == set_fields

\* model_dump(exclude_unset=True, exclude={header, version, sequence, smp_data},
\* exclude_none=True) of the set fields: nested models are dumped the same way
model_dump(set_fields) ==
    LET kept == SelectSeq(set_fields, NotNone)
        DumpItem(item) == IF item.k = "map" THEN VMap(SelectSeq(item.v, NotNone)) ELSE item
        Dump(val) == IF val.k = "list"
                     THEN VList([i \in 1 .. Len(val.v) |-> DumpItem(val.v[i])])
                     ELSE DumpItem(val)
    IN [i \in 1 .. Len(kept) |-> <<kept[i][1], Dump(kept[i][2])>>]

(***************************************************************************)
(* smp/message.py: _MessageBase                                            *)
(***************************************************************************)
\* Version.V2, the default of the version field (wire value 1)
DEFAULT_VERSION == 1
NoMessage == [cls |-> "", header |-> NoHeader, version |-> -1, sequence |-> -1,
              smp_data |-> << >>, fields |-> << >>]
NoMsgResult == [status |-> "none", err |-> "", m |-> NoMessage]
MsgRaise(kind) == [status |-> "error", err |-> kind, m |-> NoMessage]
HeaderNone == [given |-> FALSE, h |-> NoHeader]
HeaderArg(h) == [given |-> TRUE, h |-> h]

PayloadName(pair) == pair[1] \notin BaseFields
\* the sequence number model_post_init takes from the module's counter
AutoSequence(count) == count % 255
\* cls(header=header, **kwargs): pydantic validation, then model_post_init;
\* count is the value next(_counter) returns
Message(cls, header, kwargs, count) ==
    LET type == MessageClass[cls]
        validated == ValidateModel(type.fields, SelectSeq(kwargs, PayloadName))
        version == IF Has(kwargs, "version") THEN Lookup(kwargs, "version").v[1]
                   ELSE DEFAULT_VERSION
        data_bytes == cbor2_dumps(VMap(model_dump(validated.fields)))
        made == Header(MkHeader(type.OP, version, 0, Len(data_bytes), type.GROUP_ID,
                                IF Has(kwargs, "sequence")
                                THEN Lookup(kwargs, "sequence").v[1]
                                ELSE AutoSequence(count),
                                type.COMMAND_ID))
    IN IF \/ ~validated.ok
          \/ (Has(kwargs, "version")
                /\ ~(Lookup(kwargs, "version").k = "int"
                        /\ Lookup(kwargs, "version").v[1] \in VersionValues))
          \/ (Has(kwargs, "sequence") /\ Lookup(kwargs, "sequence").k # "int")
          \/ (Has(kwargs, "smp_data") /\ Lookup(kwargs, "smp_data").k # "bytes")
       THEN MsgRaise("ValidationError")
       ELSE IF ~header.given
       THEN (IF made.status # "ok" THEN MsgRaise(made.err)
             ELSE [status |-> "ok", err |-> "",
                   m |-> [cls |-> cls, header |-> made.h, version |-> version,
                          sequence |-> made.h.sequence,
                          smp_data |-> IF Has(kwargs, "smp_data")
                                       THEN Lookup(kwargs, "smp_data").v
                                       ELSE made.bytes \o data_bytes,
                          fields |-> validated.fields]])
       ELSE IF ~Has(kwargs, "smp_data") /\ header.h.length # Len(data_bytes)
       THEN MsgRaise("SMPMalformed")
       ELSE IF Has(kwargs, "sequence") THEN MsgRaise("ValueError")
       ELSE [status |-> "ok", err |-> "",
             m |-> [cls |-> cls, header |-> header.h, version |-> header.h.version,
                    sequence |-> header.h.sequence,
                    smp_data |-> IF Has(kwargs, "smp_data")
                                 THEN Lookup(kwargs, "smp_data").v
                                 ELSE STRUCT_pack(header.h) \o data_bytes,
                    fields |-> validated.fields]]

\* a construction that calls next(_counter) although a sequence was given
TakesCount_WithSequence(cls, header, kwargs) ==
    /\ ~header.given
    /\ Message(cls, header, kwargs, 0).err # "ValidationError"

\* TRUE iff the construction calls next(_counter): no header and no sequence
\* were given and validation passed
TakesCount(cls, header, kwargs) ==
    /\ ~header.given
    /\ ~Has(kwargs, "sequence")
    /\ Message(cls, header, kwargs, 0).err # "ValidationError"

\* cls.loads(data)
loads(cls, data, optimized) ==
    LET header == Header_loads(PySliceTo(data, HeaderSIZE), optimized)
        map == cbor2_loads(PySliceFrom(data, HeaderSIZE))
        message == Message(cls, HeaderArg(header.h),
                           Append(map.val.v, <<"smp_data", VBytes(data)>>), 0)
    IN IF header.status # "ok" THEN MsgRaise(header.err)
       ELSE IF ~map.ok THEN MsgRaise("CBORDecodeError")
       ELSE IF \/ map.val.k # "map"
               \/ Has(map.val.v, NONSTR_KEY)
               \/ Has(map.val.v, "header")
               \/ Has(map.val.v, "smp_data")
       THEN MsgRaise("TypeError")
       ELSE IF message.status # "ok" THEN message
       ELSE IF message.m.header.group_id # MessageClass[cls].GROUP_ID
       THEN MsgRaise("SMPMismatchedGroupId")
       ELSE message

\* a load that serializes the dict as it was given, None values included
load_DumpsGiven(cls, header, data) ==
    LET made == Message(cls, HeaderArg(header), data, 0)
    IN IF header.group_id # MessageClass[cls].GROUP_ID THEN MsgRaise("SMPMismatchedGroupId")
       ELSE IF Has(data, "header") THEN MsgRaise("TypeError")
       ELSE IF made.status # "ok" THEN made
       ELSE [made EXCEPT !.m.smp_data =
                STRUCT_pack(header) \o cbor2_dumps(VMap(SelectSeq(data, PayloadName)))]
\* cls.load(header, data)
load(cls, header, data) ==
    IF header.group_id # MessageClass[cls].GROUP_ID THEN MsgRaise("SMPMismatchedGroupId")
    ELSE IF Has(data, "header") THEN MsgRaise("TypeError")
    ELSE Message(cls, HeaderArg(header), data, 0)

\* the threads of the client process; each is between two constructions (idle)
\* or has entered model_post_init (entered) and remembers what the counter
\* held when it did
Threads == {"t1", "t2", "t3"}
ThreadsIdle == [t \in Threads |-> [pc |-> "idle", entered_at |-> 0, drawn |-> << >>]]

MessageIdle ==
    /\ msg_in = [kind |-> "idle", cls |-> "", kwargs |-> << >>, header |-> HeaderNone,
                 frame |-> << >>]
    /\ msg = NoMsgResult
    /\ msg_loaded = NoMsgResult
    /\ counter = 0
    /\ threads = ThreadsIdle

(***************************************************************************)
(* The packetizer as a state machine: encode yields packets one at a time  *)
(* and the caller sends them, in order, to a decoder.                      *)
(***************************************************************************)
MaxFrameLen == 5
MaxPackets == 12
RECURSIVE BytesUpTo(_)
BytesUpTo(n) ==
    IF n = 0 THEN {<< >>}
    ELSE LET shorter == BytesUpTo(n - 1)
         IN shorter \cup {Append(b, x) : b \in {c \in shorter : Len(c) = n - 1},
                                          x \in {0, 165, 255}}

\* b"Hello, world!" and the frame of EchoWriteRequest(d="Hello world!")
HelloBytes == <<72, 101, 108, 108, 111, 44, 32, 119, 111, 114, 108, 100, 33>>
EchoFrame == <<10, 0, 0, 16, 0, 0, 0, 0, 161, 97, 100, 108,
               72, 101, 108, 108, 111, 32, 119, 111, 114, 108, 100, 33>>
Frames == BytesUpTo(MaxFrameLen) \cup {HelloBytes, EchoFrame}
\* line lengths: the transports', the least that fits four characters, and
\* values that fit none
LineLengths == {0, 4, 7, 8, 16, 128, 512, 4096}

NoCorruption == [packet |-> 0, index |-> 0, char |-> 0]
PacketIdle ==
    /\ request = << >>
    /\ line_length = 0
    /\ enc = EncIdle
    /\ packets = << >>
    /\ dec = DecIdle
    /\ corrupted = NoCorruption

PacketInit ==
    /\ hdr_in = HeaderIdle
    /\ hdr = NoResult
    /\ hdr_loaded = NoResult
    /\ request \in Frames
    /\ line_length \in LineLengths
    /\ enc = [EncIdle EXCEPT !.pc = "start"]
    /\ packets = << >>
    /\ dec = [DecIdle EXCEPT !.pc = "first"]
    /\ corrupted = NoCorruption
    /\ MessageIdle

\* encode up to its first yield (lines 78-92); struct.pack refuses a length over 0xFFFF
EncodeFirst ==
    /\ enc.pc = "start"
    /\ IF ~FitsH(Len(request) + CRC16_STRUCT_size)
       THEN /\ enc' = [enc EXCEPT !.pc = "failed"]
            /\ UNCHANGED packets
       ELSE /\ packets' = <<START_DELIMITER
                              \o PySliceTo(complete_b64(request), packet_size(line_length))
                              \o END_DELIMITER>>
            /\ enc' = [pc |-> "loop",
                       remaining |-> PySliceFrom(complete_b64(request),
                                                 packet_size(line_length))]
    /\ UNCHANGED <<hdr_vars, msg_vars, request, line_length, dec, corrupted, threads>>

\* one turn of the while loop (lines 96-99)
EncodeNext ==
    /\ enc.pc = "loop"
    /\ Len(enc.remaining) > 0
    /\ Len(packets) < MaxPackets
    /\ packets' = Append(packets, CONTINUE_DELIMITER
                            \o PySliceTo(enc.remaining, packet_size(line_length))
                            \o END_DELIMITER)
    /\ enc' = [enc EXCEPT !.remaining = PySliceFrom(enc.remaining, packet_size(line_length))]
    /\ UNCHANGED <<hdr_vars, msg_vars, request, line_length, dec, corrupted, threads>>

\* the loop ends: the generator is exhausted
EncodeReturn ==
    /\ enc.pc = "loop"
    /\ Len(enc.remaining) = 0
    /\ enc' = [enc EXCEPT !.pc = "done"]
    /\ UNCHANGED <<hdr_vars, msg_vars, request, line_length, packets, dec, corrupted, threads>>

\* the caller sends the next packet, in order, to the decoder
DecodeSend ==
    /\ dec.pc \in {"first", "more"}
    /\ dec.fed < Len(packets)
    /\ dec' = DecSend(dec, packets[dec.fed + 1])
    /\ UNCHANGED <<hdr_vars, msg_vars, request, line_length, enc, packets, corrupted, threads>>

PacketNext == EncodeFirst \/ EncodeNext \/ EncodeReturn \/ DecodeSend

SpecPacket == PacketInit /\ [][PacketNext]_vars

\* C1: feeding the packets of encode(frame, mtu), in order, to a fresh decoder
\* makes it complete and return exactly the original frame bytes.
C1_TransportRoundTrip ==
    line_length \in {16, 128, 512, 4096} =>
        /\ dec.pc # "failed"
        /\ dec.pc = "done" => dec.result = request
        /\ (enc.pc = "done" /\ dec.fed = Len(packets)) => dec.pc = "done"

C1_Witness ==
    /\ request = EchoFrame /\ line_length = 16
    /\ enc.pc = "done" /\ Len(packets) = 4
    /\ dec.pc = "done" /\ dec.result = EchoFrame

(***************************************************************************)
(* The header codec as a state machine: callers construct headers from     *)
(* arbitrary integers and load headers from arbitrary byte strings.        *)
(***************************************************************************)
\* field values handed to Header(...): in range, at and beyond each width
HeaderInputs ==
    {MkHeader(op, v, f, l, g, s, c) :
        op \in {-1, 0, 3, 5, 8}, v \in {0, 1, 2, 4}, f \in {0, 256},
        l \in {0, 65535, 65536}, g \in {-1, 0, 1, 9, 65535, 65536},
        s \in {140, 256}, c \in {-1, 0, 5, 8, 255, 256}}

\* raw byte strings handed to Header.loads: 8 bytes, and one byte short or long
RawHeaders ==
    LET eight == {<<b0, f, 0, l, gh, gl, s, c>> :
                    b0 \in {0, 3, 4, 11, 16, 24, 35}, f \in {0, 1}, l \in {0, 7},
                    gh \in {0, 255}, gl \in {0, 1, 9, 64}, s \in {0, 140},
                    c \in {0, 1, 6, 255}}
        some == {r \in eight : r[1] \in {0, 11} /\ r[2] = 0}
    IN eight \cup {SubSeq(b, 1, 7) : b \in some} \cup {b \o <<0>> : b \in some}
           \cup {<< >>}

HeaderCalls ==
    {[kind |-> "fields", h |-> h, raw |-> << >>] : h \in HeaderInputs}
      \cup {[kind |-> "raw", h |-> NoHeader, raw |-> r] : r \in RawHeaders}

HeaderInit ==
    /\ hdr_in \in HeaderCalls
    /\ hdr = NoResult
    /\ hdr_loaded = NoResult
    /\ PacketIdle
    /\ MessageIdle

\* Header(op, version, flags, length, group_id, sequence, command_id)
HeaderConstruct ==
    /\ hdr_in.kind = "fields"
    /\ hdr.status = "none"
    /\ hdr' = Header(hdr_in.h)
    /\ UNCHANGED <<hdr_in, hdr_loaded, pkt_vars, msg_vars, threads>>

\* Header.loads(bytes(h)) for the header h just constructed
HeaderLoadsOwn ==
    /\ hdr.status = "ok"
    /\ hdr_loaded.status = "none"
    /\ \E optimized \in BOOLEAN : hdr_loaded' = Header_loads(hdr.bytes, optimized)
    /\ UNCHANGED <<hdr_in, hdr, pkt_vars, msg_vars, threads>>

\* Header.loads(raw) for bytes from the transport
HeaderLoadsRaw ==
    /\ hdr_in.kind = "raw"
    /\ hdr_loaded.status = "none"
    /\ \E optimized \in BOOLEAN : hdr_loaded' = Header_loads(hdr_in.raw, optimized)
    /\ UNCHANGED <<hdr_in, hdr, pkt_vars, msg_vars, threads>>

HeaderNext == HeaderConstruct \/ HeaderLoadsOwn \/ HeaderLoadsRaw

SpecHeader == HeaderInit /\ [][HeaderNext]_vars

(***************************************************************************)
(* Properties of the header codec.                                         *)
(***************************************************************************)
\* the field ranges of the wire layout
ValidOp(op) == op \in {0, 1, 2, 3}
ValidVersion(v) == v \in {0, 1}
InWidth(h) ==
    /\ h.flags \in 0 .. 255
    /\ h.length \in 0 .. 65535
    /\ h.group_id \in 0 .. 65535
    /\ h.sequence \in 0 .. 255
    /\ h.command_id \in 0 .. 255
\* the command-ID enums of the three groups that register one
HasEnum(g) == g \in {0, 1, 9}
InEnum(g, c) == (g = 0 /\ c \in 0 .. 8) \/ (g = 1 /\ c \in 0 .. 5) \/ (g = 9 /\ c = 0)
ValidHeader(h) ==
    ValidOp(h.op) /\ ValidVersion(h.version) /\ InWidth(h)
        /\ (HasEnum(h.group_id) => InEnum(h.group_id, h.command_id))
RawGroup(raw) == raw[5] * 256 + raw[6]
RawOpBits(raw) == raw[1] % 8
RawVersionBits(raw) == (raw[1] \div 8) % 4

C8_OutOfWidthFails ==
    (hdr_in.kind = "fields" /\ hdr.status # "none"
        /\ ~(hdr_in.h.op \in 0 .. 7 /\ hdr_in.h.version \in 0 .. 3 /\ InWidth(hdr_in.h)))
        => hdr.status = "error"

MaxImages == 2

\* a keyword argument that is left out, or given one of the values
Kwarg(name, values) == {<< >>} \cup {<<<<name, val>>>> : val \in values}
TextHi == <<104, 105>>

\* ImageState(...) keyword arguments: the required fields and two optional ones,
\* and one call that leaves out a required field
ImageStateKwargs ==
    {<<<<"slot", VInt(0)>>, <<"version", VStr(<<49>>)>>>> \o image \o bootable :
        image \in Kwarg("image", {VNone, VInt(0)}),
        bootable \in Kwarg("bootable", {VBool(FALSE), VBool(TRUE)})}
        \cup {<<<<"slot", VInt(0)>>>>}
RECURSIVE ImageLists(_)
ImageLists(n) ==
    IF n = 0 THEN {<< >>}
    ELSE LET shorter == ImageLists(n - 1)
         IN shorter \cup {Append(l, VMap(i)) : l \in {x \in shorter : Len(x) = n - 1},
                                              i \in ImageStateKwargs}

\* the payload keyword arguments given to each type: valid, None, falsy, of the
\* wrong type, missing and undeclared ones
PayloadKwargs(cls) ==
    CASE cls = "EchoWriteRequest" ->
            Kwarg("d", {VStr(<< >>), VStr(TextHi), VStr(SubSeq(EchoFrame, 13, 24)),
                        VInt(5), VNone})
                \cup {<<<<"d", VStr(TextHi)>>, <<"rc", VInt(0)>>>>}
      [] cls = "ResetWriteRequest" -> Kwarg("force", {VNone, VInt(0), VInt(1), VInt(2)})
      [] cls = "ImageUploadWriteResponse" ->
            {off \o match \o rc :
                off \in Kwarg("off", {VNone, VInt(0), VInt(24), VInt(300)}),
                match \in Kwarg("match", {VNone, VBool(FALSE), VBool(TRUE), VStr(TextHi)}),
                rc \in Kwarg("rc", {VNone, VInt(0)})}
      [] cls = "ImageStatesReadResponse" ->
            {<< >>} \cup
            {<<<<"images", VList(l)>>>> \o split :
                l \in ImageLists(MaxImages),
                split \in Kwarg("splitStatus", {VNone, VInt(0)})}
      [] OTHER -> {<< >>}

\* Header objects a caller can hold: every one passed Header's own checks
HeaderObjects ==
    {h \in {MkHeader(op, 1, 0, length, group_id, 7, command_id) :
                op \in {OP.WRITE, OP.WRITE_RSP}, length \in {0, 1, 4, 6},
                group_id \in {0, 1, 64}, command_id \in {0, 1, 5}} :
        Header(h).status = "ok"}

\* payload bytes found on the wire: encoded maps, cut short, or followed by more
WirePayloads ==
    {cbor2_dumps(VMap(m)) :
        m \in {<< >>, <<<<"d", VStr(TextHi)>>>>, <<<<"off", VInt(0)>>>>,
               <<<<"off", VNone>>>>, <<<<"force", VInt(1)>>>>,
               <<<<"images", VList(<< >>)>>>>, <<<<"sequence", VInt(3)>>>>}}
        \cup {<< >>, <<1>>, <<161, 97>>, <<161, 1, 2>>, <<160, 0>>}

\* payload maps of error responses: rc with or without rsn, err holding group
\* and rc, both shapes at once, neither, and values outside the declared types
ErrorMaps ==
    {<<<<"rc", rc>>>> \o rsn :
        rc \in {VInt(0), VInt(13), VInt(256), VInt(14), VStr(TextHi)},
        rsn \in Kwarg("rsn", {VStr(TextHi), VNone, VInt(5)})}
    \cup {<<<<"err", VMap(<<<<"group", VInt(group)>>, <<"rc", VInt(rc)>>>>)>>>> \o v1 :
            group \in {0, 1, 63, 64}, rc \in {0, 1, 2},
            v1 \in Kwarg("rc", {VInt(0)})}
    \cup {<< >>, <<<<"rsn", VStr(TextHi)>>>>, <<<<"err", VNone>>>>,
          <<<<"err", VMap(<<<<"rc", VInt(0)>>>>)>>>>,
          <<<<"err", VMap(<<<<"group", VInt(0)>>, <<"rc", VInt(0)>>,
                           <<"rsn", VStr(TextHi)>>>>)>>>>}

\* test_regressions.RESPONSE: a legacy image upload response, the header
\* followed by the map {"rc": 0, "off": 165} of indefinite length
RESPONSE == <<3, 0, 0, 12, 0, 1, 2, 1,
              191, 98, 114, 99, 0, 99, 111, 102, 102, 24, 165, 255>>

\* the calls made: cls(**kwargs) with and without sequence and version,
\* cls(header=h, **kwargs), cls.loads(frame) and cls.load(h, data)
MessageCalls ==
    LET Call(kind, cls, kwargs, header, frame) ==
            [kind |-> kind, cls |-> cls, kwargs |-> kwargs, header |-> header,
             frame |-> frame]
        \* the length field of a frame: the payload's length, one more, or 0
        DeclaredLength(payload, declare) ==
            CASE declare = "actual" -> Len(payload)
              [] declare = "more" -> Len(payload) + 1
              [] OTHER -> 0
    IN UNION {{Call("construct", cls, kw \o seq \o ver, HeaderNone, << >>) :
                  kw \in PayloadKwargs(cls),
                  seq \in Kwarg("sequence", {VInt(0), VInt(255), VInt(256)}),
                  ver \in Kwarg("version", {VInt(0), VInt(2)})} :
              cls \in MessageTypes \ {"ImageStatesReadResponse"}}
       \cup {Call("construct", "ImageStatesReadResponse", kw, HeaderNone, << >>) :
                  kw \in PayloadKwargs("ImageStatesReadResponse")}
       \cup {Call("construct", cls, kw, HeaderArg(h), << >>) :
                  cls \in {"ResetWriteRequest", "ImageUploadWriteResponse"},
                  kw \in {<< >>, <<<<"off", VInt(0)>>>>, <<<<"force", VInt(1)>>>>,
                          <<<<"sequence", VInt(0)>>>>},
                  h \in HeaderObjects}
       \cup {Call("loads", cls, << >>, HeaderNone,
                  STRUCT_pack(MkHeader(op, 1, 0, DeclaredLength(payload, declare),
                                       group_id, 7, command_id)) \o payload) :
                  cls \in MessageTypes, payload \in WirePayloads,
                  op \in {OP.WRITE, OP.WRITE_RSP},
                  declare \in {"actual", "more", "zero"},
                  group_id \in {0, 1, 64}, command_id \in {0, 1, 5, 6}}
       \cup {Call("loads", cls, << >>, HeaderNone, f) :
                  cls \in MessageTypes, f \in {<< >>, <<2, 0, 0, 0, 0, 0, 7>>}}
       \cup {Call("load", cls, data, HeaderArg(h), << >>) :
                  cls \in MessageTypes, h \in HeaderObjects,
                  data \in {<< >>, <<<<"d", VStr(TextHi)>>>>, <<<<"off", VInt(0)>>>>,
                            <<<<"off", VNone>>, <<"match", VBool(FALSE)>>>>,
                            <<<<"force", VInt(1)>>>>, <<<<"off", VNone>>>>}}
       \cup {Call("load", "ImageUploadWriteResponse",
                  <<<<"match", VBool(TRUE)>>, <<"off", VInt(0)>>>>,
                  HeaderArg(MkHeader(OP.WRITE_RSP, 1, 0, 13, GroupId.IMAGE_MANAGEMENT, 7, 1)),
                  << >>)}
       \cup {Call("loads", "ImageUploadWriteResponse", << >>, HeaderNone, RESPONSE),
             Call("errors", "ImageManagement", << >>, HeaderNone, RESPONSE)}
       \cup {Call("errors", "", << >>, HeaderNone,
                  STRUCT_pack(MkHeader(OP.READ, 1, 0, Len(cbor2_dumps(VMap(m))),
                                       GroupId.IMAGE_MANAGEMENT, 0, 0))
                      \o cbor2_dumps(VMap(m))) :
                  m \in ErrorMaps}
\* values the module's counter has reached when the call is made
CounterInputs == {0, 254, 255}

MessageInit ==
    /\ hdr_in = HeaderIdle
    /\ hdr = NoResult
    /\ hdr_loaded = NoResult
    /\ PacketIdle
    /\ msg_in \in MessageCalls
    /\ msg = NoMsgResult
    /\ msg_loaded = NoMsgResult
    /\ counter \in CounterInputs
    /\ threads = ThreadsIdle

\* cls(**kwargs), or cls(header=header, **kwargs)
MessageConstruct ==
    /\ msg_in.kind = "construct"
    /\ msg.status = "none"
    /\ msg' = Message(msg_in.cls, msg_in.header, msg_in.kwargs, counter)
    /\ counter' = IF TakesCount(msg_in.cls, msg_in.header, msg_in.kwargs)
                  THEN counter + 1 ELSE counter
    /\ UNCHANGED <<hdr_vars, pkt_vars, msg_in, msg_loaded, threads>>

\* cls.loads(bytes(m)) for the message m just constructed
MessageLoadsOwn ==
    /\ msg_in.kind = "construct"
    /\ msg.status = "ok"
    /\ msg_loaded.status = "none"
    /\ \E optimized \in BOOLEAN :
          msg_loaded' = loads(msg.m.cls, msg.m.smp_data, optimized)
    /\ UNCHANGED <<hdr_vars, pkt_vars, msg_in, msg, counter, threads>>

\* cls.loads(frame) for bytes from the transport
MessageLoadsFrame ==
    /\ msg_in.kind = "loads"
    /\ msg_loaded.status = "none"
    /\ \E optimized \in BOOLEAN :
          msg_loaded' = loads(msg_in.cls, msg_in.frame, optimized)
    /\ UNCHANGED <<hdr_vars, pkt_vars, msg_in, msg, counter, threads>>

\* cls.load(header, data)
MessageLoad ==
    /\ msg_in.kind = "load"
    /\ msg_loaded.status = "none"
    /\ msg_loaded' = load(msg_in.cls, msg_in.header.h, msg_in.kwargs)
    /\ UNCHANGED <<hdr_vars, pkt_vars, msg_in, msg, counter, threads>>

\* a dict with its keys in the opposite order, the dicts inside a list too
Reversed(pairs) ==
    LET Rev(s) == [i \in 1 .. Len(s) |-> s[Len(s) + 1 - i]]
        Item(val) == IF val.k = "map" THEN VMap(Rev(val.v)) ELSE val
        Val(val) == IF val.k = "list"
                    THEN VList([i \in 1 .. Len(val.v) |-> Item(val.v[i])])
                    ELSE val
    IN [i \in 1 .. Len(pairs) |->
           <<pairs[Len(pairs) + 1 - i][1], Val(pairs[Len(pairs) + 1 - i][2])>>]

\* cls.load(m.header, data) for the message m just constructed, data being the
\* payload keyword arguments of m in the opposite order
MessageLoadOwn ==
    /\ msg_in.kind = "construct"
    /\ msg.status = "ok"
    /\ msg_loaded.status = "none"
    /\ msg_loaded' = load(msg.m.cls, msg.m.header,
                          Reversed(SelectSeq(msg_in.kwargs, PayloadName)))
    /\ UNCHANGED <<hdr_vars, pkt_vars, msg_in, msg, counter, threads>>

\* cls(**fields) for the fields of the message just loaded, in the opposite order
MessageConstructEqual ==
    /\ msg_in.kind \in {"loads", "load"}
    /\ msg_loaded.status = "ok"
    /\ msg.status = "none"
    /\ msg' = Message(msg_in.cls, HeaderNone, Reversed(msg_loaded.m.fields), counter)
    /\ counter' = IF TakesCount(msg_in.cls, HeaderNone, Reversed(msg_loaded.m.fields))
                  THEN counter + 1 ELSE counter
    /\ UNCHANGED <<hdr_vars, pkt_vars, msg_in, msg_loaded, threads>>

\* FakeErrorV1.loads(frame) or ImageManagementErrorV1.loads(frame) for the
\* frame of a response
ErrorV1Loads ==
    /\ msg_in.kind = "errors"
    /\ msg_loaded.status = "none"
    /\ \E optimized \in BOOLEAN :
          msg_loaded' = loads(IF msg_in.cls = "ImageManagement"
                              THEN "ImageManagementErrorV1" ELSE "FakeErrorV1",
                              msg_in.frame, optimized)
    /\ UNCHANGED <<hdr_vars, pkt_vars, msg_in, msg, counter, threads>>

\* FakeErrorV2.loads(frame) or ImageManagementErrorV2.loads(frame) for the same
\* frame; msg holds its outcome
ErrorV2Loads ==
    /\ msg_in.kind = "errors"
    /\ msg.status = "none"
    /\ \E optimized \in BOOLEAN :
          msg' = loads(IF msg_in.cls = "ImageManagement"
                       THEN "ImageManagementErrorV2" ELSE "FakeErrorV2",
                       msg_in.frame, optimized)
    /\ UNCHANGED <<hdr_vars, pkt_vars, msg_in, msg_loaded, counter, threads>>

\* cls.load(Header.loads(frame[:8]), cbor2.loads(frame[8:])) for the frame that
\* cls.loads was given, when its header decodes and its payload is a map with
\* names for keys; msg_in then holds the arguments of this call
MessageLoadDecoded ==
    LET header == Header_loads(PySliceTo(msg_in.frame, HeaderSIZE), FALSE)
        map == cbor2_loads(PySliceFrom(msg_in.frame, HeaderSIZE))
    IN /\ msg_in.kind = "loads"
       /\ msg_loaded.status # "none"
       /\ msg.status = "none"
       /\ header.status = "ok"
       /\ map.ok /\ map.val.k = "map" /\ ~Has(map.val.v, NONSTR_KEY)
       /\ msg' = load(msg_in.cls, header.h, map.val.v)
       /\ msg_in' = [msg_in EXCEPT !.kind = "decoded", !.header = HeaderArg(header.h),
                                   !.kwargs = map.val.v]
       /\ UNCHANGED <<hdr_vars, pkt_vars, msg_loaded, counter, threads>>

MessageNext ==
    \/ MessageConstruct
    \/ MessageLoadsOwn
    \/ MessageLoadsFrame
    \/ MessageLoad
    \/ MessageLoadOwn
    \/ MessageConstructEqual
    \/ MessageLoadDecoded
    \/ ErrorV1Loads
    \/ ErrorV2Loads

SpecMessage == MessageInit /\ [][MessageNext]_vars

(***************************************************************************)
(* Properties of the message envelope.                                     *)
(***************************************************************************)
\* the value of every declared field of a validated model: None when unset
Values(fields, set_fields) ==
    [n \in FieldNames(fields) |->
        LET val == Lookup(set_fields, n)
        IN IF val.k = "list"
           THEN [i \in 1 .. Len(val.v) |->
                    [f \in FieldNames(ImageState) |-> Lookup(val.v[i].v, f)]]
           ELSE <<val>>]
PayloadOf(m) == Values(MessageClass[m.cls].fields, m.fields)
\* what the bytes after a frame's header decode to
FramePayload(frame) == cbor2_loads(PySliceFrom(frame, HeaderSIZE))
\* the map that the payload bytes of a message's frame decode to
WireMap(m) == FramePayload(m.smp_data)
\* the field was given a value other than None
Given(pairs, name) == Has(pairs, name) /\ Lookup(pairs, name).k # "none"
FrameLength(frame) == UnpackH(SubSeq(frame, 3, 4))
FrameGroup(frame) == UnpackH(SubSeq(frame, 5, 6))

\* C2: for every valid message m (its header carries its type's group), loads of
\* the serialized bytes of m succeeds and yields a message whose payload fields
\* equal those of m field for field and whose header equals the header of m.
C2_MessageRoundTrip ==
    (/\ msg_in.kind = "construct"
     /\ msg.status = "ok"
     /\ msg.m.header.group_id = MessageClass[msg.m.cls].GROUP_ID
     /\ msg_loaded.status # "none") =>
        /\ msg_loaded.status = "ok"
        /\ PayloadOf(msg_loaded.m) = PayloadOf(msg.m)
        /\ msg_loaded.m.header = msg.m.header
        /\ msg_loaded.m.smp_data = msg.m.smp_data

C2_Witness ==
    /\ msg_in.kind = "construct"
    /\ msg_in.cls = "ImageStatesReadResponse"
    /\ msg.status = "ok"
    /\ Has(msg.m.fields, "images") /\ Len(Lookup(msg.m.fields, "images").v) = 2
    /\ Has(Lookup(msg.m.fields, "images").v[1].v, "bootable")
    /\ msg_loaded.status = "ok"

\* C4: loads on frame bytes whose header.length field differs from the number of
\* bytes that follow the 8-byte header fails with SMPMalformed and returns no
\* message (stated for frames whose header decodes and whose payload is a map
\* that is valid for the type, so that no other error comes first).
C4_LengthMismatchIsMalformed ==
    (/\ msg_in.kind = "loads"
     /\ Len(msg_in.frame) >= HeaderSIZE
     /\ FrameLength(msg_in.frame) # Len(msg_in.frame) - HeaderSIZE
     /\ Header_loads(SubSeq(msg_in.frame, 1, HeaderSIZE), FALSE).status = "ok"
     /\ FrameGroup(msg_in.frame) = MessageClass[msg_in.cls].GROUP_ID
     /\ FramePayload(msg_in.frame).ok
     /\ FramePayload(msg_in.frame).val.k = "map"
     /\ ValidateModel(MessageClass[msg_in.cls].fields,
                      FramePayload(msg_in.frame).val.v).ok
     /\ msg_loaded.status # "none") =>
        /\ msg_loaded.status = "error"
        /\ msg_loaded.err = "SMPMalformed"
        /\ msg_loaded.m = NoMessage

\* C5: loads and load never produce a message whose header.command_id differs
\* from the COMMAND_ID declared by the message type.
C5_CommandIdentity ==
    (msg_in.kind \in {"loads", "load"} /\ msg_loaded.status = "ok") =>
        msg_loaded.m.header.command_id = MessageClass[msg_in.cls].COMMAND_ID

\* C6: loads(frame_bytes) and load(header, map) on a message type fail with
\* SMPMismatchedGroupId whenever the header's group_id differs from the type's
\* GROUP_ID (stated for frames whose 8-byte header decodes and whose payload
\* decodes to a map).
C6_GroupMismatchIsReported ==
    /\ (/\ msg_in.kind = "load"
        /\ msg_in.header.h.group_id # MessageClass[msg_in.cls].GROUP_ID
        /\ msg_loaded.status # "none") =>
           msg_loaded.status = "error" /\ msg_loaded.err = "SMPMismatchedGroupId"
    /\ (/\ msg_in.kind = "loads"
        /\ Len(msg_in.frame) >= HeaderSIZE
        /\ Header_loads(SubSeq(msg_in.frame, 1, HeaderSIZE), FALSE).status = "ok"
        /\ FrameGroup(msg_in.frame) # MessageClass[msg_in.cls].GROUP_ID
        /\ FramePayload(msg_in.frame).ok
        /\ FramePayload(msg_in.frame).val.k = "map"
        /\ msg_loaded.status # "none") =>
           msg_loaded.status = "error" /\ msg_loaded.err = "SMPMismatchedGroupId"

PayloadBytes(m) == PySliceFrom(m.smp_data, HeaderSIZE)
\* two messages of one type with the same set fields and equal values
LogicallyEqual(a, b) == a.cls = b.cls /\ a.fields = b.fields

\* C11 (as claimed): two logically-equal payloads (same message type, same set
\* fields with equal values) always have byte-identical serialized payload
\* bytes, whatever the order the fields were supplied in and whether the
\* message was constructed directly or obtained from loads or load.
C11_CanonicalDeterminism ==
    (/\ msg.status = "ok"
     /\ msg_loaded.status = "ok"
     /\ LogicallyEqual(msg.m, msg_loaded.m)) =>
        PayloadBytes(msg.m) = PayloadBytes(msg_loaded.m)

\* C11 (amended): two logically-equal payloads have byte-identical serialized
\* payload bytes, whatever the order the fields were supplied in, when each
\* message was constructed directly, obtained from load, or obtained from loads
\* of the serialized bytes of a message; a message obtained from loads of other
\* bytes keeps the payload bytes it was loaded from.
C11_CanonicalUnlessLoadedFromOtherBytes ==
    (/\ msg_in.kind \in {"construct", "load"}
     /\ msg.status = "ok"
     /\ msg_loaded.status = "ok"
     /\ LogicallyEqual(msg.m, msg_loaded.m)) =>
        PayloadBytes(msg.m) = PayloadBytes(msg_loaded.m)

\* a message loaded from a dict given as match, off and the message constructed
\* from the same two fields given as off, match
C11_Witness ==
    /\ msg_in.kind = "load"
    /\ Len(msg_in.kwargs) = 2
    /\ msg_in.kwargs[1][1] = "match"
    /\ msg_loaded.status = "ok"
    /\ msg.status = "ok"
    /\ Len(msg.m.fields) = 2
    /\ LogicallyEqual(msg.m, msg_loaded.m)
    /\ Len(PayloadBytes(msg.m)) = 13

\* the map a response frame carries, and the two shapes of an error map
ErrorMap == FramePayload(msg_in.frame).val.v
IsErrorV1Shape ==
    /\ Has(ErrorMap, "rc")
    /\ Lookup(ErrorMap, "rc").k = "int" /\ Lookup(ErrorMap, "rc").v[1] \in MGMT_ERR
    /\ \A i \in 1 .. Len(ErrorMap) : ErrorMap[i][1] \in {"rc", "rsn"}
    /\ Has(ErrorMap, "rsn") => Lookup(ErrorMap, "rsn").k \in {"str", "none"}
IsErrorV2Shape ==
    /\ Len(ErrorMap) = 1
    /\ ErrorMap[1][1] = "err"
    /\ ErrorMap[1][2].k = "map"
    /\ Len(ErrorMap[1][2].v) = 2
    /\ Has(ErrorMap[1][2].v, "group") /\ Has(ErrorMap[1][2].v, "rc")
    /\ Lookup(ErrorMap[1][2].v, "group").v[1] \in GroupIdMembers
    /\ Lookup(ErrorMap[1][2].v, "rc").v[1] \in FAKE_ERR

\* C12: a payload map with only key rc (an MGMT_ERR code) and optionally rsn
\* (text or None) validates as ErrorV1 and fails validation as ErrorV2; a
\* payload map {err: {group, rc}} (a GroupId and a code of the group's enum)
\* validates as ErrorV2 and fails validation as ErrorV1; no payload map
\* validates as both.
C12_ErrorShapesExclusive ==
    msg_in.kind = "errors" =>
        /\ (IsErrorV1Shape /\ msg_loaded.status # "none") => msg_loaded.status = "ok"
        /\ (IsErrorV1Shape /\ msg.status # "none") =>
               msg.status = "error" /\ msg.err = "ValidationError"
        /\ (IsErrorV2Shape /\ msg.status # "none") => msg.status = "ok"
        /\ (IsErrorV2Shape /\ msg_loaded.status # "none") =>
               msg_loaded.status = "error" /\ msg_loaded.err = "ValidationError"
        /\ ~(msg.status = "ok" /\ msg_loaded.status = "ok")

\* a map {rc, rsn} was loaded as ErrorV1 and refused as ErrorV2
C12_Witness ==
    /\ msg_in.kind = "errors"
    /\ IsErrorV1Shape /\ Has(ErrorMap, "rsn")
    /\ msg_loaded.status = "ok" /\ msg_loaded.m.cls = "FakeErrorV1"
    /\ Lookup(msg_loaded.m.fields, "rsn") = VStr(TextHi)
    /\ msg.status = "error"

\* the construction draws its sequence number from the module's counter
AutoSequenced ==
    /\ msg_in.kind = "construct"
    /\ ~msg_in.header.given
    /\ ~Has(msg_in.kwargs, "sequence")

\* C14: a message constructed with no sequence and no header gets the counter
\* value modulo 256 as its sequence number: the k-th auto-sequenced message
\* gets k mod 256, so that 255 is assigned too (the counter has advanced by
\* one when the message exists).
C14_SequenceWrap ==
    (AutoSequenced /\ msg.status = "ok") =>
        /\ msg.m.header.sequence = (counter - 1) % 256
        /\ msg.m.sequence = (counter - 1) % 256

\* C16: a message construction or parse that fails, for any reason, produces
\* no message object and leaves the module's sequence counter at the value
\* it had before the call.
C16_NoSideEffectOnFailure ==
    [][/\ (msg.status = "none" /\ msg'.status = "error") =>
             (msg'.m = NoMessage /\ counter' = counter)
       /\ (msg_loaded.status = "none" /\ msg_loaded'.status = "error") =>
             (msg_loaded'.m = NoMessage /\ counter' = counter)]_vars

(***************************************************************************)
(* Several threads construct auto-sequenced messages.  next(_counter) is   *)
(* one call into itertools.count, which the interpreter runs without       *)
(* switching threads: it returns the counter's value and advances it in    *)
(* one step.                                                               *)
(***************************************************************************)
MaxMessagesPerThread == 2

\* a counter read when the thread entered model_post_init and written back later
next_counter_ReadOnEntry(count, entered_at) ==
    [value |-> entered_at, count |-> entered_at + 1]
\* next(_counter): the value returned and the counter afterwards
next_counter(count, entered_at) == [value |-> count, count |-> count + 1]

ThreadsInit ==
    /\ hdr_in = HeaderIdle
    /\ hdr = NoResult
    /\ hdr_loaded = NoResult
    /\ PacketIdle
    /\ msg_in = [kind |-> "threads", cls |-> "EchoWriteRequest",
                 kwargs |-> <<<<"d", VStr(TextHi)>>>>, header |-> HeaderNone,
                 frame |-> << >>]
    /\ msg = NoMsgResult
    /\ msg_loaded = NoMsgResult
    /\ counter \in CounterInputs
    /\ threads = ThreadsIdle

\* thread t calls cls(**kwargs): validation passes and model_post_init begins
ThreadEnter(t) ==
    /\ threads[t].pc = "idle"
    /\ Len(threads[t].drawn) < MaxMessagesPerThread
    /\ ValidateModel(MessageClass[msg_in.cls].fields, msg_in.kwargs).ok
    /\ threads' = [threads EXCEPT ![t].pc = "entered", ![t].entered_at = counter]
    /\ UNCHANGED <<hdr_vars, pkt_vars, msg_in, msg, msg_loaded, counter>>

\* thread t evaluates next(_counter) and builds the header and the message
ThreadDraw(t) ==
    LET next == next_counter(counter, threads[t].entered_at)
        made == Message(msg_in.cls, HeaderNone, msg_in.kwargs, next.value)
    IN /\ threads[t].pc = "entered"
       /\ counter' = next.count
       /\ threads' = [threads EXCEPT
                         ![t].pc = "idle",
                         ![t].drawn = Append(@, [value |-> next.value,
                                                 sequence |-> made.m.sequence])]
       /\ UNCHANGED <<hdr_vars, pkt_vars, msg_in, msg, msg_loaded>>

ThreadsNext == \E t \in Threads : ThreadEnter(t) \/ ThreadDraw(t)

SpecThreads == ThreadsInit /\ [][ThreadsNext]_vars

\* the counter values drawn so far, by all threads
DrawnValues ==
    UNION {{threads[t].drawn[i].value : i \in 1 .. Len(threads[t].drawn)} : t \in Threads}
\* the number of messages constructed so far, by all threads
DrawnCount ==
    Cardinality({d \in Threads \X (1 .. MaxMessagesPerThread) : d[2] <= Len(threads[d[1]].drawn)})

PacketContent(i) == PySlice(packets[i], DELIMITER_SIZE, -Len(END_DELIMITER))
\* packet i is not the last one encode yields
NotLast(i) == i < Len(packets) \/ (enc.pc = "loop" /\ Len(enc.remaining) > 0)

\* C17: for every frame and every line_length, encode yields a finite sequence
\* of packets, the generator being exhausted after finitely many steps: every
\* packet its loop yields leaves it with fewer characters to send (a yield that
\* leaves the generator as it was repeats for ever).
C17_EncodeTerminates ==
    [][(enc.pc = "loop" /\ packets' # packets) =>
          Len(enc'.remaining) < Len(enc.remaining)]_vars

\* C18: every packet yielded by encode(frame, line_length), its 2-byte delimiter
\* and trailing line feed included, has total length at most line_length.
C18_MtuBound == \A i \in 1 .. Len(packets) : Len(packets[i]) <= line_length

\* the order and shape of the packets yielded so far
FramingOrder ==
    /\ enc.pc \in {"loop", "done"} => Len(packets) >= 1
    /\ \A i \in 1 .. Len(packets) :
          /\ PySliceTo(packets[i], DELIMITER_SIZE) =
                IF i = 1 THEN <<6, 9>> ELSE <<4, 20>>
          /\ packets[i][Len(packets[i])] = 10
          /\ NotLast(i) => Len(PacketContent(i)) = ((line_length - 4) \div 4) * 4

\* C19 (as claimed): encode always yields at least one packet; the first packet
\* starts with 06 09, every later packet with 04 14, every packet ends with 0A,
\* and every packet except possibly the last carries exactly
\* floor((mtu - 4) / 4) * 4 base64 characters.
C19_FramingOrder == FramingOrder

\* C19 (amended): the same, for every line_length of at least 4.
C19_FramingOrderFromFour == line_length >= 4 => FramingOrder

\* encode has yielded three packets of eight characters and has more to send
C19_Witness ==
    /\ line_length = 16
    /\ request = EchoFrame
    /\ Len(packets) = 3
    /\ enc.pc = "loop" /\ Len(enc.remaining) > 0
    /\ Len(PacketContent(3)) = 12

\* C20: once encode is exhausted, the base64 characters of all its packets,
\* concatenated in order, decode to exactly length || frame || crc, length
\* being len(frame) + 2 and crc the CRC-16/XMODEM of the frame alone, both
\* big-endian on 2 bytes (b"Hello, world!" gives 00 0f, the text, 7a de, as
\* encode's docstring shows).
C20_EnvelopeContent ==
    LET decoded == b64decode(Concat([i \in 1 .. Len(packets) |-> PacketContent(i)]))
    IN enc.pc = "done" =>
          /\ decoded.ok
          /\ decoded.data = PackH(Len(request) + 2) \o request \o PackH(crc16_func(request))
          /\ request = HelloBytes => decoded.data = <<0, 15>> \o HelloBytes \o <<122, 222>>

\* the envelope of b"Hello, world!" went out in six packets
C20_Witness ==
    /\ request = HelloBytes
    /\ line_length = 8
    /\ enc.pc = "done"
    /\ Len(packets) = 6
    /\ PacketContent(6) = <<101, 116, 52, 61>>

\* C25: a Header always serializes to exactly 8 bytes with byte 0 = op in
\* bits 0-2 and version in bits 3-4, byte 1 = flags, bytes 2-3 = length
\* big-endian, bytes 4-5 = group_id big-endian, byte 6 = sequence, byte 7 =
\* command_id; Header.loads reads the same positions, e.g. 0b 00 00 07 00 00
\* 8c 00 decodes to op=WRITE_RSP, version value 1, flags=0, length=7,
\* group_id=0, sequence=140, command_id=0.
C25_WireLayout ==
    /\ hdr.status = "ok" =>
          /\ Len(hdr.bytes) = 8
          /\ hdr.bytes[1] % 8 = hdr.h.op
          /\ (hdr.bytes[1] \div 8) % 4 = hdr.h.version
          /\ hdr.bytes[2] = hdr.h.flags
          /\ hdr.bytes[3] * 256 + hdr.bytes[4] = hdr.h.length
          /\ hdr.bytes[5] * 256 + hdr.bytes[6] = hdr.h.group_id
          /\ hdr.bytes[7] = hdr.h.sequence
          /\ hdr.bytes[8] = hdr.h.command_id
    /\ (hdr_in.kind = "raw" /\ hdr_loaded.status = "ok") =>
          /\ hdr_loaded.h.op = hdr_in.raw[1] % 8
          /\ hdr_loaded.h.version = (hdr_in.raw[1] \div 8) % 4
          /\ hdr_loaded.h.flags = hdr_in.raw[2]
          /\ hdr_loaded.h.length = hdr_in.raw[3] * 256 + hdr_in.raw[4]
          /\ hdr_loaded.h.group_id = hdr_in.raw[5] * 256 + hdr_in.raw[6]
          /\ hdr_loaded.h.sequence = hdr_in.raw[7]
          /\ hdr_loaded.h.command_id = hdr_in.raw[8]
    /\ (hdr_in.raw = <<11, 0, 0, 7, 0, 0, 140, 0>> /\ hdr_loaded.status # "none") =>
          /\ hdr_loaded.status = "ok"
          /\ hdr_loaded.h = MkHeader(OP.WRITE_RSP, 1, 0, 7, 0, 140, 0)

HasUndeclared(cls, pairs) ==
    \E i \in 1 .. Len(pairs) :
        pairs[i][1] \notin FieldNames(MessageClass[cls].fields) \cup BaseFields

\* C27: loads and load fail validation whenever the payload map contains a key
\* the message type does not declare; in particular the legacy image upload
\* response map {rc, off} deserializes as ImageUploadWriteResponse (rc kept as
\* an optional field) and fails as both ImageManagementErrorV1 and
\* ImageManagementErrorV2.
C27_UndeclaredKeysRejected ==
    /\ (/\ msg_in.kind = "loads" /\ msg_loaded.status # "none"
         /\ Header_loads(PySliceTo(msg_in.frame, HeaderSIZE), TRUE).status = "ok"
         /\ FramePayload(msg_in.frame).ok
         /\ FramePayload(msg_in.frame).val.k = "map"
         /\ HasUndeclared(msg_in.cls, FramePayload(msg_in.frame).val.v)) =>
            /\ msg_loaded.status = "error"
            /\ ~Has(FramePayload(msg_in.frame).val.v, NONSTR_KEY) =>
                  msg_loaded.err = "ValidationError"
    /\ (/\ msg_in.kind = "load" /\ msg_loaded.status # "none"
         /\ HasUndeclared(msg_in.cls, msg_in.kwargs)) =>
            /\ msg_loaded.status = "error"
            /\ msg_loaded.err =
                  (IF msg_in.header.h.group_id = MessageClass[msg_in.cls].GROUP_ID
                   THEN "ValidationError" ELSE "SMPMismatchedGroupId")
    /\ (msg_in.kind = "loads" /\ msg_in.frame = RESPONSE /\ msg_loaded.status # "none") =>
            /\ msg_loaded.status = "ok"
            /\ msg_loaded.m.cls = "ImageUploadWriteResponse"
            /\ msg_loaded.m.fields = <<<<"off", VInt(165)>>, <<"rc", VInt(0)>>>>
    /\ (msg_in.kind = "errors" /\ msg_in.frame = RESPONSE) =>
            /\ msg_loaded.status # "none" =>
                  msg_loaded.status = "error" /\ msg_loaded.err = "ValidationError"
            /\ msg.status # "none" =>
                  msg.status = "error" /\ msg.err = "ValidationError"

\* the legacy response was refused as ImageManagementErrorV1 and as
\* ImageManagementErrorV2
C27_Witness ==
    /\ msg_in.kind = "errors" /\ msg_in.cls = "ImageManagement"
    /\ msg_in.frame = RESPONSE
    /\ FramePayload(RESPONSE).val.v = <<<<"rc", VInt(0)>>, <<"off", VInt(165)>>>>
    /\ msg_loaded.status = "error" /\ msg.status = "error"

\* C24: load performs the same validation as loads: for every 8-byte header h
\* and payload bytes p that decode to the field map m, load(Header.loads(h), m)
\* succeeds exactly when loads(h || p) succeeds, fails with the same error kind
\* when it fails, and yields a message with equal header and payload fields
\* when it succeeds.
C24_LoadEquivalentToLoads ==
    msg_in.kind = "decoded" =>
        /\ msg.status = msg_loaded.status
        /\ msg.err = msg_loaded.err
        /\ msg.status = "ok" =>
              /\ msg.m.header = msg_loaded.m.header
              /\ msg.m.fields = msg_loaded.m.fields

(***************************************************************************)
(* One process that uses the header codec, the packetizer or the messages. *)
(***************************************************************************)
SpecProcess ==
    /\ HeaderInit \/ PacketInit \/ MessageInit
    /\ [][HeaderNext \/ PacketNext \/ MessageNext]_vars

\* C29: the process-wide sequence counter changes only when a message is
\* constructed with neither a header nor an explicit sequence; constructing
\* with an explicit sequence s gives header.sequence == s and leaves the
\* counter unchanged, and loads, load, Header construction, Header.loads,
\* packet.encode and packet.decode all leave it unchanged.
C29_CounterFrameCondition ==
    [][/\ counter' # counter =>
            /\ msg' # msg
            /\ \/ /\ msg_in.kind = "construct"
                  /\ ~msg_in.header.given /\ ~Has(msg_in.kwargs, "sequence")
               \/ /\ msg_in.kind \in {"loads", "load"} /\ msg_in' = msg_in
                  /\ msg'.status = "ok" => AutoSequence(counter) = msg'.m.header.sequence
       /\ (/\ msg' # msg /\ msg_in.kind = "construct"
            /\ Has(msg_in.kwargs, "sequence")) =>
               /\ counter' = counter
               /\ msg'.status = "ok" =>
                     msg'.m.header.sequence = Lookup(msg_in.kwargs, "sequence").v[1]
       /\ msg_loaded' # msg_loaded => counter' = counter
       /\ msg_in' # msg_in => counter' = counter
       /\ (hdr' # hdr \/ hdr_loaded' # hdr_loaded) => counter' = counter
       /\ (enc' # enc \/ packets' # packets \/ dec' # dec) => counter' = counter]_vars

\* EchoWriteRequest(d="hi", sequence=255) was built when the counter stood at 254
C29_Witness ==
    /\ msg_in.kind = "construct" /\ msg_in.cls = "EchoWriteRequest"
    /\ msg_in.kwargs = <<<<"d", VStr(TextHi)>>, <<"sequence", VInt(255)>>>>
    /\ msg.status = "ok" /\ msg.m.header.sequence = 255
    /\ counter = 254

(***************************************************************************)
(* A receiver whose decoder is sent whatever arrives: the packets of an    *)
(* envelope cut into lines, with a right or wrong delimiter on the first   *)
(* packet, a second start delimiter on no, the second or the third packet, *)
(* a length field that states the bytes that     *)
(* follow, fewer, more, 0 or 1, a right or wrong CRC, and a last packet    *)
(* that lost its final character.                                          *)
(***************************************************************************)
WirePackets ==
    LET Declared(payload, declare) ==
            CASE declare = "actual" -> Len(payload) + CRC16_STRUCT_size
              [] declare = "less" -> Len(payload) + 1
              [] declare = "more" -> Len(payload) + 5
              [] declare = "one" -> 1
              [] OTHER -> 0
        Text(payload, declare, crc_ok) ==
            b64encode(PackH(Declared(payload, declare)) \o payload
                      \o PackH(IF crc_ok THEN crc16_func(payload)
                               ELSE (crc16_func(payload) + 1) % 65536))
        Count(text, size) == (Len(text) + size - 1) \div size
        Chunk(text, size, i, cut) ==
            SubSeq(text, (i - 1) * size + 1,
                   IF i < Count(text, size) THEN i * size
                   ELSE IF cut THEN Len(text) - 1 ELSE Len(text))
        Lines(text, size, first, restart, cut) ==
            [i \in 1 .. Count(text, size) |->
                (IF i = 1 THEN first
                 ELSE IF i = restart THEN START_DELIMITER
                 ELSE CONTINUE_DELIMITER) \o Chunk(text, size, i, cut)
                    \o END_DELIMITER]
    IN {[request |-> payload, line_length |-> size + LINE_LENGTH_SUBTRACTOR,
         packets |-> Lines(Text(payload, declare, crc_ok), size, first, restart, cut)] :
            payload \in {<< >>, <<1>>, <<1, 2, 3>>, HelloBytes},
            declare \in {"actual", "less", "more", "one", "zero"},
            crc_ok \in BOOLEAN, size \in {4, 124},
            first \in {START_DELIMITER, CONTINUE_DELIMITER, << >>},
            restart \in {0, 2, 3},
            cut \in BOOLEAN}
       \cup {[request |-> << >>, line_length |-> 8, packets |-> lines] :
                lines \in {<<<< >>>>, <<START_DELIMITER \o END_DELIMITER>>,
                           <<START_DELIMITER>>}}

DecodeInit ==
    /\ hdr_in = HeaderIdle
    /\ hdr = NoResult
    /\ hdr_loaded = NoResult
    /\ \E wire \in WirePackets :
          /\ request = wire.request
          /\ line_length = wire.line_length
          /\ packets = wire.packets
    /\ enc = EncIdle
    /\ dec = [DecIdle EXCEPT !.pc = "first"]
    /\ corrupted = NoCorruption
    /\ MessageIdle

SpecDecode == DecodeInit /\ [][DecodeSend]_vars

\* the first two bytes of packet i
Prefix(i) == PySliceTo(packets[i], DELIMITER_SIZE)

\* C21: the first packet sent to a decoder must begin with the start delimiter,
\* otherwise decode fails with SMPBadStartDelimiter; every packet consumed after
\* the first must begin with the continue delimiter, otherwise decode fails
\* with SMPBadContinueDelimiter (a second start-delimited packet in the middle
\* of a frame is rejected, not taken as a new frame).
C21_DelimiterChecks ==
    /\ (dec.fed >= 1 /\ Prefix(1) # <<6, 9>>) =>
          /\ dec.pc = "failed" /\ dec.err = "SMPBadStartDelimiter"
          /\ dec.fed = 1
    /\ \A i \in 2 .. dec.fed :
          Prefix(i) # <<4, 20>> =>
             /\ dec.pc = "failed" /\ dec.err = "SMPBadContinueDelimiter"
             /\ dec.fed = i
    /\ dec.err = "SMPBadStartDelimiter" => (dec.fed = 1 /\ Prefix(1) # <<6, 9>>)
    /\ dec.err = "SMPBadContinueDelimiter" =>
          (dec.fed > 1 /\ Prefix(dec.fed) # <<4, 20>>)

\* the third packet of a frame began with the start delimiter and was refused
C21_Witness ==
    /\ dec.fed = 3
    /\ Prefix(1) = <<6, 9>> /\ Prefix(2) = <<4, 20>> /\ Prefix(3) = <<6, 9>>
    /\ dec.pc = "failed" /\ dec.err = "SMPBadContinueDelimiter"

\* the bytes that the base64 text of packets 1 .. n decodes to
RECURSIVE Received(_)
Received(n) ==
    IF n = 0 THEN << >>
    ELSE Received(n - 1)
           \o b64decode(PySlice(packets[n], DELIMITER_SIZE, -Len(END_DELIMITER))).data

\* packets 1 .. n have the right delimiters and base64 text, and the first
\* holds a length field
WellFormed(n) ==
    /\ n >= 1
    /\ \A i \in 1 .. n :
          /\ Prefix(i) = (IF i = 1 THEN <<6, 9>> ELSE <<4, 20>>)
          /\ b64decode(PySlice(packets[i], DELIMITER_SIZE, -Len(END_DELIMITER))).ok
    /\ Len(Received(1)) >= FRAME_LENGTH_STRUCT_size

\* the length field of the first packet and the buffer after n packets
DeclaredLength == UnpackH(PySliceTo(Received(1), FRAME_LENGTH_STRUCT_size))
Accumulated(n) == PySliceFrom(Received(n), FRAME_LENGTH_STRUCT_size)

\* C22: once the accumulated buffer reaches the declared length, decode takes
\* the trailing 2 bytes as the big-endian received CRC and recomputes
\* CRC-16/XMODEM over the preceding bytes; it fails with SMPBadCRC if and only
\* if the two differ, and otherwise returns exactly the preceding bytes.
C22_CrcCheck ==
    (/\ WellFormed(dec.fed)
     /\ Len(Accumulated(dec.fed)) >= DeclaredLength
     /\ \A n \in 1 .. dec.fed - 1 : Len(Accumulated(n)) < DeclaredLength) =>
        LET buffer == Accumulated(dec.fed)
            preceding == PySliceTo(buffer, -2)
            trailing == PySliceFrom(buffer, -2)
        IN IF Len(trailing) = 2 /\ UnpackH(trailing) = crc16_func(preceding)
           THEN dec.pc = "done" /\ dec.result = preceding
           ELSE dec.pc = "failed" /\ dec.err = "SMPBadCRC"

\* C23: for every sequence of input packets (empty or truncated packets, a
\* declared length smaller than 2 and text that is not base64 included) a
\* decode failure is one of SMPBadStartDelimiter, SMPBadContinueDelimiter and
\* SMPBadCRC, never another kind of error.
C23_TypedErrorsOnly ==
    dec.pc = "failed" =>
        dec.err \in {"SMPBadStartDelimiter", "SMPBadContinueDelimiter", "SMPBadCRC"}

\* C30: whenever decode completes, the returned frame has exactly (declared
\* length - 2) bytes, the declared length being the length field of the first
\* packet; bytes received beyond the declared length are not in the frame.
C30_DecodedLength ==
    dec.pc = "done" => Len(dec.result) = DeclaredLength - CRC16_STRUCT_size

\* C28: after consuming each packet the decoder is in exactly one of three
\* states: completed, failed, or suspended awaiting one more packet; it
\* suspends if and only if the accumulated buffer is shorter than the declared
\* length, so when fed the packets of encode(frame, mtu) in order it completes
\* on exactly the last packet, never earlier and never needing an extra
\* packet, and while no packet is sent it stays as it is.
C28_DecoderStepping ==
    /\ [](/\ dec.fed >= 1 => dec.pc \in {"done", "failed", "more"}
          /\ (dec.fed >= 1 /\ dec.pc # "failed") =>
                (dec.pc = "more" <=> Len(Accumulated(dec.fed)) < DeclaredLength)
          /\ dec.pc = "done" => (Len(enc.remaining) = 0 /\ dec.fed = Len(packets))
          /\ enc.pc = "done" =>
                /\ dec.pc # "failed"
                /\ dec.fed = Len(packets) => dec.pc = "done")
    /\ [][dec'.fed = dec.fed => dec' = dec]_vars

\* encode(b"Hello, world!", 8) is exhausted after six packets and the decoder,
\* five packets in, is suspended two bytes short of the declared length
C28_Witness ==
    /\ request = HelloBytes /\ line_length = 8
    /\ enc.pc = "done" /\ Len(packets) = 6
    /\ dec.fed = 5 /\ dec.pc = "more"
    /\ Len(dec.frame) = 13 /\ dec.frame_length = 15

(***************************************************************************)
(* A noisy serial line: the frame of a message is encoded, one character   *)
(* of the base64 content of one packet is replaced by another character of *)
(* the base64 alphabet, the packets are fed in order to a decoder and the  *)
(* frame it returns is given to loads.                                     *)
(***************************************************************************)
\* the messages sent, and the line lengths: one packet, or several
SentMessages ==
    {[cls |-> "EchoWriteRequest", kwargs |-> <<<<"d", VStr(TextHi)>>>>],
     [cls |-> "ResetWriteRequest", kwargs |-> << >>],
     [cls |-> "ImageUploadWriteResponse", kwargs |-> <<<<"off", VInt(0)>>>>]}
NoisyLineLengths == {16, 128}

CorruptInit ==
    /\ hdr_in = HeaderIdle
    /\ hdr = NoResult
    /\ hdr_loaded = NoResult
    /\ \E sent \in SentMessages :
          /\ msg_in = [kind |-> "received", cls |-> sent.cls, kwargs |-> sent.kwargs,
                       header |-> HeaderNone, frame |-> << >>]
          /\ request = Message(sent.cls, HeaderNone, sent.kwargs, 0).m.smp_data
    /\ line_length \in NoisyLineLengths
    /\ enc = [EncIdle EXCEPT !.pc = "start"]
    /\ packets = << >>
    /\ dec = DecIdle
    /\ corrupted = NoCorruption
    /\ msg = NoMsgResult
    /\ msg_loaded = NoMsgResult
    /\ counter = 1
    /\ threads = ThreadsIdle

\* the line replaces one character of the base64 content of one packet, once
\* encode is exhausted; the receiver then creates its decoder
CorruptPacket ==
    /\ enc.pc = "done"
    /\ corrupted = NoCorruption
    /\ \E p \in 1 .. Len(packets) :
          \E i \in DELIMITER_SIZE + 1 .. Len(packets[p]) - Len(END_DELIMITER) :
             \E v \in 0 .. 63 :
                /\ B64Char(v) # packets[p][i]
                /\ corrupted' = [packet |-> p, index |-> i, char |-> B64Char(v)]
                /\ packets' = [packets EXCEPT ![p][i] = B64Char(v)]
    /\ dec' = [DecIdle EXCEPT !.pc = "first"]
    /\ UNCHANGED <<hdr_vars, msg_vars, request, line_length, enc, threads>>

\* cls.loads(frame) for the frame the decoder returned
ReceiveLoads ==
    /\ msg_in.kind = "received"
    /\ dec.pc = "done"
    /\ msg_loaded.status = "none"
    /\ \E optimized \in BOOLEAN :
          msg_loaded' = loads(msg_in.cls, dec.result, optimized)
    /\ UNCHANGED <<hdr_vars, pkt_vars, msg_in, msg, counter, threads>>

CorruptNext ==
    \/ EncodeFirst
    \/ EncodeNext
    \/ EncodeReturn
    \/ CorruptPacket
    \/ DecodeSend
    \/ ReceiveLoads

SpecCorrupt == CorruptInit /\ [][CorruptNext]_vars

\* C13: after exactly one character of the base64 content of one packet of
\* encode(frame, mtu) was replaced by a different base64 character and the
\* packets were fed in order to decode, decode never completes returning bytes
\* that loads accepts as a valid message different from the original.
C13_CorruptionDetected ==
    (corrupted # NoCorruption /\ dec.pc = "done" /\ msg_loaded.status = "ok") =>
        dec.result = request

====
